---- MODULE Spec2Model ----
(***************************************************************************)
(* A model of the CV parsing pipeline of cv-parser-ai:                    *)
(*   - the response parser and confidence scorer of AIProcessor,          *)
(*   - the schema validator DataValidator with the FIELD_CONFIGS table,   *)
(*   - the orchestrator CVParser.parse with its retry loop and            *)
(*     post-processing,                                                   *)
(*   - the model-fallback loop parseWithFallback of the application.      *)
(*                                                                         *)
(* A JavaScript string is a sequence of atoms; an atom is one character   *)
(* or an indivisible run of ordinary letters (a key such as "personal", a *)
(* fixed piece of a message).  Trimming, fence stripping, the regular     *)
(* expressions, JSON.stringify and JSON.parse are computed atom by atom.  *)
(* A number with two decimals (a confidence) is kept in hundredths.       *)
(* JavaScript values are                                                  *)
(* tagged records (JNull, JStr, JArr, JObj ...); an object is the ordered *)
(* sequence of its <<key, value>> entries, as Object.entries sees it.     *)
(***************************************************************************)
EXTENDS Integers, Sequences, FiniteSets, TLC

VARIABLES
  pc,        \* position of the one parse() call of the orchestrator
  opts,      \* mergedOptions of that call
  attempt,   \* loop variable of _processWithRetry
  calls,     \* outcomes of the processWithSchema calls made so far
  waits,     \* the timer delays the call has waited, in ms
  lastError, \* lastError of _processWithRetry
  aiResult,  \* what _processWithRetry returned
  stages,    \* the stages of parse() that have run, in order
  outcome,   \* how parse() settled
  logged,    \* what the call wrote with console.warn
  pin,       \* response parser: the input text
  pout,      \* response parser: what parseAIResponse returned
  vin,       \* validator: schema and payload
  vout,      \* validator: what validate() returned
  fb,        \* parseWithFallback: the state of its loop
  batch,     \* parseBatch: the state of its loop
  made,      \* new CVParser(options): the instance made or the error thrown
  adapter,   \* an AIProcessor: its lastPromptInfo and the calls made on it
  svc,       \* parseCV of the application service: the state of one call
  chunks     \* parseCVBatch: the state of its chunks

vars == <<pc, opts, attempt, calls, waits, lastError, aiResult, stages, outcome,
          logged, pin, pout, vin, vout, fb, batch, made, adapter, svc, chunks>>

\* the state of the CVParser instance's calls
orchVars == <<pc, opts, attempt, calls, waits, lastError, aiResult, stages,
              outcome, logged, batch, made, adapter, svc, chunks>>

-----------------------------------------------------------------------------
(* Strings *)

Whitespace == {" ", "\n", "\t", "\r"}
Digits == {"0", "1", "2", "3", "4", "5", "6", "7", "8", "9"}

RECURSIVE TrimStart(_)
TrimStart(s) ==
  IF s # <<>> /\ Head(s) \in Whitespace THEN TrimStart(Tail(s)) ELSE s

RECURSIVE TrimEnd(_)
TrimEnd(s) ==
  IF s # <<>> /\ s[Len(s)] \in Whitespace
  THEN TrimEnd(SubSeq(s, 1, Len(s) - 1)) ELSE s

\* String.prototype.trim
Trim(s) == TrimEnd(TrimStart(s))

\* s.startsWith(p, i - 1): p occurs in s at the 1-based position i
OccursAt(s, p, i) ==
  /\ i >= 1
  /\ i + Len(p) - 1 <= Len(s)
  /\ SubSeq(s, i, i + Len(p) - 1) = p

\* s.includes(p)
Includes(s, p) == \E i \in 1..(Len(s) + 1) : OccursAt(s, p, i)

\* s.indexOf(c) and s.lastIndexOf(c), 0-based, -1 when c does not occur
IndexOf(s, c) ==
  IF \E i \in 1..Len(s) : s[i] = c
  THEN (CHOOSE i \in 1..Len(s) : s[i] = c /\ \A j \in 1..(i - 1) : s[j] # c) - 1
  ELSE -1

LastIndexOf(s, c) ==
  IF \E i \in 1..Len(s) : s[i] = c
  THEN (CHOOSE i \in 1..Len(s) :
          s[i] = c /\ \A j \in (i + 1)..Len(s) : s[j] # c) - 1
  ELSE -1

\* s.substring(from) and s.substring(0, to), 0-based
SubstringFrom(s, from) == SubSeq(s, from + 1, Len(s))
SubstringTo(s, to) == SubSeq(s, 1, to)

\* s.replace(/<marker>\n?/g, ''): every occurrence of the marker, left to
\* right, with the line feed that may follow it
RECURSIVE StripAll(_, _)
StripAll(s, marker) ==
  IF ~Includes(s, marker) THEN s
  ELSE LET at == CHOOSE i \in 1..Len(s) :
                   /\ OccursAt(s, marker, i)
                   /\ \A j \in 1..(i - 1) : ~OccursAt(s, marker, j)
           rest == SubSeq(s, at + Len(marker), Len(s))
       IN  SubSeq(s, 1, at - 1)
           \o (IF rest # <<>> /\ Head(rest) = "\n"
               THEN StripAll(Tail(rest), marker)
               ELSE StripAll(rest, marker))

RECURSIVE Join(_, _)
\* Array.prototype.join on an array of strings
Join(list, sep) ==
  IF list = <<>> THEN <<>>
  ELSE IF Len(list) = 1 THEN list[1]
  ELSE list[1] \o sep \o Join(Tail(list), sep)

-----------------------------------------------------------------------------
(* JavaScript values *)

JUndef == [k |-> "undef"]
JNull == [k |-> "null"]
JBool(b) == [k |-> "bool", b |-> b]
JNum(n) == [k |-> "num", n |-> n]
JStr(s) == [k |-> "str", s |-> s]
JArr(a) == [k |-> "arr", a |-> a]
JObj(m) == [k |-> "obj", m |-> m]

HasKey(m, key) == \E i \in 1..Len(m) : m[i][1] = key

\* obj[key] for an own property
Lookup(m, key) ==
  IF HasKey(m, key)
  THEN m[CHOOSE i \in 1..Len(m) : m[i][1] = key][2]
  ELSE JUndef

\* obj[key] = v: an existing key keeps its place, a new one is appended
Put(m, key, v) ==
  IF HasKey(m, key)
  THEN [i \in 1..Len(m) |-> IF m[i][1] = key THEN <<key, v>> ELSE m[i]]
  ELSE Append(m, <<key, v>>)

\* value[key] where value is neither null nor undefined: a primitive or an
\* array has no such own property
Get(v, key) == IF v.k = "obj" THEN Lookup(v.m, key) ELSE JUndef

\* the truthiness of a value in a condition
Truthy(v) ==
  CASE v.k = "undef" -> FALSE
    [] v.k = "null"  -> FALSE
    [] v.k = "bool"  -> v.b
    [] v.k = "num"   -> v.n # 0
    [] v.k = "str"   -> v.s # <<>>
    [] OTHER         -> TRUE

\* how a call ends: with a value, or with an exception and its message
Returned(v) == [threw |-> FALSE, msg |-> <<>>, v |-> v]
Thrown(msg) == [threw |-> TRUE, msg |-> msg, v |-> JUndef]

-----------------------------------------------------------------------------
(* JSON.stringify and JSON.parse *)

RECURSIVE NumStr(_)
\* the decimal digits of a non-negative integer
NumStr(n) ==
  LET d == <<"0", "1", "2", "3", "4", "5", "6", "7", "8", "9">>
  IN  IF n < 10 THEN <<d[n + 1]>> ELSE NumStr(n \div 10) \o <<d[(n % 10) + 1]>>

RECURSIVE Escape(_)
\* the body of the string literal JSON.stringify writes for a string
Escape(s) ==
  IF s = <<>> THEN <<>>
  ELSE LET c == Head(s)
       IN  (CASE c = "\"" -> <<"\\", "\"">>
              [] c = "\\" -> <<"\\", "\\">>
              [] c = "\n" -> <<"\\", "n">>
              [] c = "\t" -> <<"\\", "t">>
              [] c = "\r" -> <<"\\", "r">>
              [] OTHER    -> <<c>>) \o Escape(Tail(s))

RECURSIVE Stringify(_)
RECURSIVE StringifyItems(_)
RECURSIVE StringifyMembers(_, _)

\* the array items, an undefined item written as null
StringifyItems(a) ==
  IF a = <<>> THEN <<>>
  ELSE (IF Head(a).k = "undef" THEN <<"n", "u", "l", "l">> ELSE Stringify(Head(a)))
       \o (IF Len(a) > 1 THEN <<",">> ELSE <<>>) \o StringifyItems(Tail(a))

\* the object members, a member whose value is undefined left out
StringifyMembers(m, first) ==
  IF m = <<>> THEN <<>>
  ELSE IF Head(m)[2].k = "undef" THEN StringifyMembers(Tail(m), first)
  ELSE (IF first THEN <<>> ELSE <<",">>)
       \o <<"\"">> \o Escape(Head(m)[1]) \o <<"\"", ":">> \o Stringify(Head(m)[2])
       \o StringifyMembers(Tail(m), FALSE)

\* JSON.stringify(v) for a value that is not undefined
Stringify(v) ==
  CASE v.k = "null" -> <<"n", "u", "l", "l">>
    [] v.k = "bool" -> IF v.b THEN <<"t", "r", "u", "e">>
                       ELSE <<"f", "a", "l", "s", "e">>
    [] v.k = "num"  -> NumStr(v.n)
    [] v.k = "str"  -> <<"\"">> \o Escape(v.s) \o <<"\"">>
    [] v.k = "arr"  -> <<"[">> \o StringifyItems(v.a) \o <<"]">>
    [] v.k = "obj"  -> <<"{">> \o StringifyMembers(v.m, TRUE) \o <<"}">>

PFail == [ok |-> FALSE, v |-> JUndef, i |-> 0]
POk(v, i) == [ok |-> TRUE, v |-> v, i |-> i]

RECURSIVE SkipWs(_, _)
SkipWs(s, i) ==
  IF i <= Len(s) /\ s[i] \in Whitespace THEN SkipWs(s, i + 1) ELSE i

RECURSIVE ParseStr(_, _, _)
\* a string literal whose opening quote is before position i.  The escapes
\* \b and \uXXXX are not modelled (no modelled text contains them).
ParseStr(s, i, acc) ==
  IF i > Len(s) THEN PFail
  ELSE IF s[i] = "\"" THEN POk(JStr(acc), i + 1)
  ELSE IF s[i] \in {"\n", "\t", "\r"} THEN PFail
  ELSE IF s[i] = "\\"
  THEN IF i + 1 > Len(s) THEN PFail
       ELSE LET e == s[i + 1]
            IN  CASE e \in {"\"", "\\", "/"} -> ParseStr(s, i + 2, Append(acc, e))
                  [] e = "n" -> ParseStr(s, i + 2, Append(acc, "\n"))
                  [] e = "t" -> ParseStr(s, i + 2, Append(acc, "\t"))
                  [] e = "r" -> ParseStr(s, i + 2, Append(acc, "\r"))
                  [] OTHER   -> PFail
  ELSE ParseStr(s, i + 1, Append(acc, s[i]))

RECURSIVE ParseDigits(_, _, _)
ParseDigits(s, i, n) ==
  IF i <= Len(s) /\ s[i] \in Digits
  THEN ParseDigits(s, i + 1,
         10 * n + (CHOOSE d \in 0..9 : NumStr(d) = <<s[i]>>))
  ELSE POk(JNum(n), i)

RECURSIVE ParseValue(_, _)
RECURSIVE ParseItems(_, _, _)
RECURSIVE ParseMembers(_, _, _)

\* the items of an array after its "[" or after a ","
ParseItems(s, i, acc) ==
  LET r == ParseValue(s, i)
  IN  IF ~r.ok THEN PFail
      ELSE LET j == SkipWs(s, r.i)
           IN  IF j > Len(s) THEN PFail
               ELSE IF s[j] = "," THEN ParseItems(s, j + 1, Append(acc, r.v))
               ELSE IF s[j] = "]" THEN POk(JArr(Append(acc, r.v)), j + 1)
               ELSE PFail

\* the members of an object after its "{" or after a ","
ParseMembers(s, i, acc) ==
  LET j == SkipWs(s, i)
  IN  IF j > Len(s) \/ s[j] # "\"" THEN PFail
      ELSE LET key == ParseStr(s, j + 1, <<>>)
           IN  IF ~key.ok THEN PFail
               ELSE LET c == SkipWs(s, key.i)
                    IN  IF c > Len(s) \/ s[c] # ":" THEN PFail
                        ELSE LET r == ParseValue(s, c + 1)
                             IN  IF ~r.ok THEN PFail
                                 ELSE LET e == SkipWs(s, r.i)
                                          m == Put(acc, key.v.s, r.v)
                                      IN  IF e > Len(s) THEN PFail
                                          ELSE IF s[e] = ","
                                          THEN ParseMembers(s, e + 1, m)
                                          ELSE IF s[e] = "}"
                                          THEN POk(JObj(m), e + 1)
                                          ELSE PFail

\* one JSON value starting at or after position i.  Numbers are the
\* non-negative integers; a sign, a fraction or an exponent is not modelled.
ParseValue(s, i) ==
  LET j == SkipWs(s, i)
  IN  IF j > Len(s) THEN PFail
      ELSE CASE s[j] = "{" ->
                  LET e == SkipWs(s, j + 1)
                  IN  IF e <= Len(s) /\ s[e] = "}" THEN POk(JObj(<<>>), e + 1)
                      ELSE ParseMembers(s, j + 1, <<>>)
             [] s[j] = "[" ->
                  LET e == SkipWs(s, j + 1)
                  IN  IF e <= Len(s) /\ s[e] = "]" THEN POk(JArr(<<>>), e + 1)
                      ELSE ParseItems(s, j + 1, <<>>)
             [] s[j] = "\"" -> ParseStr(s, j + 1, <<>>)
             [] s[j] = "0" -> POk(JNum(0), j + 1)
             [] s[j] \in Digits \ {"0"} -> ParseDigits(s, j, 0)
             [] OccursAt(s, <<"n", "u", "l", "l">>, j) -> POk(JNull, j + 4)
             [] OccursAt(s, <<"t", "r", "u", "e">>, j) -> POk(JBool(TRUE), j + 4)
             [] OccursAt(s, <<"f", "a", "l", "s", "e">>, j) -> POk(JBool(FALSE), j + 5)
             [] OTHER -> PFail

\* JSON.parse(s): the value, or the SyntaxError it throws
JSONParse(s) ==
  LET r == ParseValue(s, 1)
  IN  IF r.ok /\ SkipWs(s, r.i) > Len(s)
      THEN [ok |-> TRUE, v |-> r.v]
      ELSE [ok |-> FALSE, v |-> JUndef]

-----------------------------------------------------------------------------
(* AIProcessor: the confidence score and the response parser *)

Min(a, b) == IF a < b THEN a ELSE b

\* a score taken over the full weight of 100, whatever sections are there
ShareOfFullWeight(score, maxScore) == score

\* Math.round(score / maxScore * 100) / 100, in hundredths
RoundedRatio(score, maxScore) ==
  IF maxScore > 0 THEN (200 * score + maxScore) \div (2 * maxScore) ELSE 0

\* value && Array.isArray(value) && value.length > 0
NonEmptyArray(v) == v.k = "arr" /\ Len(v.a) > 0

\* AIProcessor.calculateConfidence(data), data neither null nor undefined
CalculateConfidence(data) ==
  LET personal == Get(data, <<"personal">>)
      experience == Get(data, <<"experience">>)
      education == Get(data, <<"education">>)
      skills == Get(data, <<"skills">>)
      hasSkills == /\ Truthy(skills)
                   /\ \/ Truthy(Get(skills, <<"technical">>))
                      \/ Truthy(Get(skills, <<"soft">>))
      score ==
          (IF Truthy(personal) /\ Truthy(Get(personal, <<"fullName">>)) THEN 20 ELSE 0)
        + (IF Truthy(personal) /\ Truthy(Get(personal, <<"email">>)) THEN 20 ELSE 0)
        + (IF Truthy(personal) /\ Truthy(Get(personal, <<"phone">>)) THEN 10 ELSE 0)
        + (IF NonEmptyArray(experience) THEN Min(Len(experience.a) * 10, 30) ELSE 0)
        + (IF NonEmptyArray(education) THEN Min(Len(education.a) * 5, 10) ELSE 0)
        + (IF hasSkills THEN 10 ELSE 0)
      maxScore ==
          (IF Truthy(personal) THEN 50 ELSE 0)
        + (IF NonEmptyArray(experience) THEN 30 ELSE 0)
        + (IF NonEmptyArray(education) THEN 10 ELSE 0)
        + (IF hasSkills THEN 10 ELSE 0)
  IN  RoundedRatio(score, maxScore)

\* the backtick character (the module's lexer reserves the character itself)
Backtick == "BACKTICK"

FenceJson == <<Backtick, Backtick, Backtick, "json">>
Fence == <<Backtick, Backtick, Backtick>>

\* the text left by the trimming, fence stripping and brace cutting steps
CleanResponse(text) ==
  LET trimmed == Trim(text)
      unfenced == StripAll(StripAll(trimmed, FenceJson), Fence)
      jsonStart == IndexOf(unfenced, "{")
      fromBrace == IF jsonStart > 0 THEN SubstringFrom(unfenced, jsonStart)
                   ELSE unfenced
      jsonEnd == LastIndexOf(fromBrace, "}")
  IN  IF jsonEnd > 0 THEN SubstringTo(fromBrace, jsonEnd + 1) ELSE fromBrace

\* the return of the catch block
ParseFailure(message, response) ==
  [success |-> FALSE, threw |-> FALSE,
   error |-> <<"Failed to parse AI response: ">> \o message,
   rawResponse |-> response, data |-> JUndef, confidence |-> 0]

\* a catch block that would report the cleaned text instead
CleanedResponse(response, clean) == clean

\* what the catch block reports as rawResponse: the parameter, which the
\* cleaning steps (working on the local cleanResponse) leave alone
RawResponse(response, clean) == response

\* JSON.parse of the cleaned text, inside the try: a syntax error, or the
\* value (calculateConfidence of a parsed null throws)
BodyParsed(parsed) ==
  IF ~parsed.ok THEN Thrown(<<"Unexpected token">>)
  ELSE IF parsed.v.k = "null" THEN Thrown(<<"Cannot read properties of null">>)
  ELSE Returned(parsed.v)

\* the try block of parseAIResponse: response.substring throws for a
\* response that is no string
ParseBody(response) ==
  IF response.k # "str" THEN Thrown(<<"Cannot read properties of null">>)
  ELSE BodyParsed(JSONParse(CleanResponse(response.s)))

\* the try block ended as r: its value is returned with its confidence, its
\* exception is caught
Caught(r, response) ==
  IF r.threw
  THEN ParseFailure(r.msg,
         RawResponse(response,
                     IF response.k = "str" THEN JStr(CleanResponse(response.s))
                     ELSE response))
  ELSE [success |-> TRUE, threw |-> FALSE, error |-> <<>>,
        rawResponse |-> JUndef, data |-> r.v,
        confidence |-> CalculateConfidence(r.v)]

\* AIProcessor.parseAIResponse(response).  response is a JavaScript value: a
\* string, or null when the provider's envelope carries no text.
ParseAIResponse(response) == Caught(ParseBody(response), response)

-----------------------------------------------------------------------------
(* The response parser on its own: inputs and the one step that parses *)

None == [k |-> "none"]

\* bounds of the parser's inputs
MaxStrLen == 3
MaxTextLen == 4

RECURSIVE SeqsUpTo(_, _)
\* the sequences over S of length at most n
SeqsUpTo(S, n) ==
  IF n = 0 THEN {<<>>}
  ELSE LET shorter == SeqsUpTo(S, n - 1)
       IN  shorter \cup {Append(t, c) : t \in shorter, c \in S}

\* the atoms of the string values inside the objects
StrAtoms == {"x", Backtick, "{", "}", "\""}
ParserStrings == SeqsUpTo(StrAtoms, MaxStrLen)

\* the atoms of an arbitrary provider reply
TextAtoms == {"x", Backtick, "{", "}", " ", "json"}
ParserTexts == SeqsUpTo(TextAtoms, MaxTextLen)

\* the JSON objects O of the round trip
ParserObjects ==
  {JObj(<<>>)}
  \cup {JObj(<< <<<<"a">>, JStr(t)>> >>) : t \in ParserStrings}
  \cup {JObj(<< <<<<"a">>, v>> >>) :
          v \in {JNull, JNum(0), JNum(12), JBool(FALSE), JArr(<<>>),
                 JArr(<<JNull, JStr(<<"x">>)>>), JObj(<<>>)}}
  \cup {JObj(<< <<<<"personal">>,
                  JObj(<< <<<<"fullName">>, JStr(<<"A", " ", "B">>)>>,
                          <<<<"email">>, JStr(t)>> >>)>>,
                <<<<"experience">>, JArr(<<JObj(<< <<<<"x">>, JNull>> >>)>>)>> >>) :
          t \in SeqsUpTo({"x", "}", Backtick}, MaxStrLen)}

\* prose without "{" before the object, text without "}" after it
Proses == {<<"Sure", "!", " ">>, <<"x", "}", " ">>, <<"\n">>}
Trailers == {<<" ", "ok">>, <<" ", "{">>, <<>>}

Wrapped(O, wrap) ==
  CASE wrap.kind = "bare"  -> Stringify(O)
    [] wrap.kind = "fence" -> FenceJson \o <<"\n">> \o Stringify(O) \o <<"\n">> \o Fence
    [] wrap.kind = "prose" -> wrap.before \o Stringify(O) \o wrap.after

Wraps ==
  {[kind |-> "bare", before |-> <<>>, after |-> <<>>],
   [kind |-> "fence", before |-> <<>>, after |-> <<>>]}
  \cup {[kind |-> "prose", before |-> b, after |-> a] : b \in Proses, a \in Trailers}

\* the payload and the reply of a stub provider: "Sure! " and the payload
\* in a json fence
StubPayload ==
  JObj(<< <<<<"personal">>,
            JObj(<< <<<<"fullName">>, JStr(<<"A", " ", "B">>)>>,
                    <<<<"email">>, JStr(<<"a", "@", "b", ".", "com">>)>> >>)>> >>)
StubReply ==
  <<"Sure", "!", " ">> \o FenceJson \o <<"\n">> \o Stringify(StubPayload)
  \o <<"\n">> \o Fence

ParserInputs ==
  {[kind |-> "object", obj |-> O, wrap |-> w.kind, text |-> JStr(Wrapped(O, w))] :
      O \in ParserObjects, w \in Wraps}
  \cup {[kind |-> "stub", obj |-> StubPayload, wrap |-> "fence", text |-> JStr(StubReply)]}
  \cup {[kind |-> "text", obj |-> None, wrap |-> "none", text |-> JStr(t)] :
      t \in ParserTexts}
  \cup {[kind |-> "text", obj |-> None, wrap |-> "none", text |-> JNull]}

ParserIdle == pin = None /\ pout = None

\* the provider adapter hands the reply to parseAIResponse
ParseResponse ==
  /\ pin # None
  /\ pout = None
  /\ pout' = ParseAIResponse(pin.text)
  /\ UNCHANGED <<pin, vin, vout, fb, orchVars>>

-----------------------------------------------------------------------------
(* FIELD_CONFIGS: the validator and the normalizer of each field type *)

RECURSIVE ToStr(_)
RECURSIVE ToStrItems(_)
\* Array.prototype.toString: the items joined by ",", null and undefined empty
ToStrItems(a) ==
  IF a = <<>> THEN <<>>
  ELSE (IF Head(a).k \in {"null", "undef"} THEN <<>> ELSE ToStr(Head(a)))
       \o (IF Len(a) > 1 THEN <<",">> ELSE <<>>) \o ToStrItems(Tail(a))

\* value.toString(), and the string a regular expression tests, for a value
\* that is neither null nor undefined
ToStr(v) ==
  CASE v.k = "str"  -> v.s
    [] v.k = "num"  -> NumStr(v.n)
    [] v.k = "bool" -> IF v.b THEN <<"true">> ELSE <<"false">>
    [] v.k = "arr"  -> ToStrItems(v.a)
    [] v.k = "obj"  -> <<"[object Object]">>

\* String.prototype.toLowerCase on the capital letters the inputs use
LowerAtom(c) ==
  CASE c = "A" -> "a"
    [] c = "B" -> "b"
    [] c = "X" -> "x"
    [] OTHER   -> c

ToLowerCase(s) == [i \in 1..Len(s) |-> LowerAtom(s[i])]

\* s.replace(/[\s\-\(\)]/g, '')
StripPhonePunctuation(s) ==
  SelectSeq(s, LAMBDA c : c \notin Whitespace \cup {"-", "(", ")"})

\* /^[^\s@]+@[^\s@]+\.[^\s@]+$/.test(s)
EmailRegex(s) ==
  /\ \A i \in 1..Len(s) : s[i] \notin Whitespace
  /\ Cardinality({i \in 1..Len(s) : s[i] = "@"}) = 1
  /\ LET at == CHOOSE i \in 1..Len(s) : s[i] = "@"
     IN  /\ at > 1
         /\ \E dot \in (at + 2)..(Len(s) - 1) : s[dot] = "."

\* /^[\+]?[1-9][\d]{0,15}$/.test(s)
PhoneRegex(s) ==
  LET digits == IF s # <<>> /\ Head(s) = "+" THEN Tail(s) ELSE s
  IN  /\ Len(digits) \in 1..16
      /\ digits[1] \in Digits \ {"0"}
      /\ \A i \in 1..Len(digits) : digits[i] \in Digits

SchemeAlpha == {"https", "http", "x", "a", "b", "c"}
SpecialSchemes == {<<"https">>, <<"http">>}

\* whether new URL(s) returns: s, without the spaces around it, starts with
\* a scheme and ":", and a special scheme is followed by a host.  (The part
\* of the URL parser the modelled inputs exercise.)
UrlParses(s) ==
  LET t == Trim(s)
  IN  \E colon \in 2..Len(t) :
        /\ t[colon] = ":"
        /\ t[1] \in SchemeAlpha
        /\ \A i \in 1..(colon - 1) : t[i] \in SchemeAlpha \cup Digits \cup {"+", "-", "."}
        /\ LET rest == SelectSeq(SubSeq(t, colon + 1, Len(t)),
                                 LAMBDA c : c \notin {"/", "\\"})
           IN  SubSeq(t, 1, colon - 1) \in SpecialSchemes
                 => rest # <<>> /\ Head(rest) \notin {":", "?", "#", "@"}

AllDigits(s) == \A i \in 1..Len(s) : s[i] \in Digits
TwoDigit(s) == (CHOOSE d \in 0..9 : NumStr(d) = <<s[1]>>) * 10
               + (CHOOSE d \in 0..9 : NumStr(d) = <<s[2]>>)

\* Date.parse(s) and the date part of new Date(s).toISOString().  Modelled
\* where every engine agrees: the ISO forms YYYY, YYYY-MM and YYYY-MM-DD (a
\* day up to 28) parse, as UTC; a string without any digit is NaN.
DateParse(s) ==
  LET year == SubSeq(s, 1, 4)
      month == SubSeq(s, 6, 7)
      day == SubSeq(s, 9, 10)
      monthOk == Len(s) >= 7 /\ s[5] = "-" /\ AllDigits(month)
                 /\ TwoDigit(month) \in 1..12
      dayOk == Len(s) = 10 /\ s[8] = "-" /\ AllDigits(day)
               /\ TwoDigit(day) \in 1..28
  IN  IF Len(s) = 4 /\ AllDigits(s)
      THEN [ok |-> TRUE, iso |-> s \o <<"-", "0", "1", "-", "0", "1">>]
      ELSE IF Len(s) = 7 /\ AllDigits(year) /\ monthOk
      THEN [ok |-> TRUE, iso |-> s \o <<"-", "0", "1">>]
      ELSE IF Len(s) = 10 /\ AllDigits(year) /\ monthOk /\ dayOk
      THEN [ok |-> TRUE, iso |-> s]
      ELSE [ok |-> FALSE, iso |-> <<>>]

ConfiguredTypes == {"string", "email", "phone", "url", "date", "array"}

\* FIELD_CONFIGS[type].validator(value): a boolean, or the exception it
\* throws (phone on a value without a replace method)
FieldValidator(type, value) ==
  CASE type = "string" -> Returned(value.k = "str")
    [] type = "email"  -> Returned(EmailRegex(ToStr(value)))
    [] type = "phone"  ->
         IF value.k = "str" THEN Returned(PhoneRegex(StripPhonePunctuation(value.s)))
         ELSE Thrown(<<"value?.replace is not a function">>)
    [] type = "url"    -> Returned(UrlParses(ToStr(value)))
    [] type = "date"   -> Returned(DateParse(ToStr(value)).ok)
    [] type = "array"  -> Returned(value.k = "arr")

\* what new Date(value).toISOString() does with a date that did not parse
InvalidDateNormalized(value) == Thrown(<<"Invalid time value">>)

\* FIELD_CONFIGS[type].normalizer(value): the normalised value, or the
\* exception it throws
FieldNormalizerOf(type, value) ==
  CASE type = "string" -> Returned(JStr(Trim(ToStr(value))))
    [] type = "email"  -> Returned(JStr(Trim(ToLowerCase(ToStr(value)))))
    [] type = "phone"  -> Returned(JStr(StripPhonePunctuation(ToStr(value))))
    [] type = "url"    -> Returned(JStr(Trim(ToStr(value))))
    [] type = "date"   ->
         IF DateParse(ToStr(value)).ok
         THEN Returned(JStr(DateParse(ToStr(value)).iso))
         ELSE InvalidDateNormalized(value)
    [] type = "array"  -> Returned(value)

-----------------------------------------------------------------------------
(* DataValidator *)

\* a field of a schema: {type, required} without nested fields, and
\* {type, required, fields} with them
Field(type, required) ==
  [type |-> type, required |-> required, nested |-> FALSE, fields |-> <<>>]
FieldWith(type, required, fields) ==
  [type |-> type, required |-> required, nested |-> TRUE, fields |-> fields]

\* value === undefined || value === null || value === ''
IsMissing(value) == value.k \in {"undef", "null"} \/ value = JStr(<<>>)

\* the condition under which a field is reported as a missing required field
RequiredMissing(config, value) == config.required /\ IsMissing(value)

\* path ? `${path}.${key}` : key
ChildPath(path, key) == IF path # <<>> THEN path \o <<".">> \o key ELSE key

\* `${path}[${index}]`
ItemPath(path, index) == path \o <<"[">> \o NumStr(index) \o <<"]">>

RequiredMessage(path) == <<"Required field missing: ">> \o path
ErrorMessage(path, msg) == <<"Validation error for ">> \o path \o <<": ">> \o msg
FormatMessage(path, value) == <<"Invalid format for ">> \o path \o <<": ">> \o ToStr(value)
CoerceMessage(path) == <<"Converting non-array to array for ">> \o path

\* what a call leaves behind: whether it threw, its value, and the entries it
\* pushed onto the caller's errors and warnings (pushed entries stay pushed
\* when the call throws afterwards)
Done(v, errors, warnings) ==
  [threw |-> FALSE, msg |-> <<>>, v |-> v, errors |-> errors, warnings |-> warnings]
Threw(msg, errors, warnings) ==
  [threw |-> TRUE, msg |-> msg, v |-> JUndef, errors |-> errors, warnings |-> warnings]

\* a validator that would leave a missing optional field undefined
OptionalLeftUndefined == JUndef

\* the value _validateObject stores for an optional field that is missing
OptionalMissingValue == JNull

\* the leaf part of _validateField once the validator has answered check
\* and the normalizer would answer normal: a failed check is a warning, and
\* the normalizer runs after it
LeafChecked(value, path, check, normal) ==
  IF check.threw THEN Threw(check.msg, <<>>, <<>>)
  ELSE IF normal.threw
  THEN Threw(normal.msg, <<>>,
             IF ~check.v THEN <<FormatMessage(path, value)>> ELSE <<>>)
  ELSE Done(normal.v, <<>>,
            IF ~check.v THEN <<FormatMessage(path, value)>> ELSE <<>>)

\* the leaf part of _validateField: the type's format check, then its
\* normalizer
ValidateLeaf(value, config, path) ==
  IF config.type \notin ConfiguredTypes THEN Done(value, <<>>, <<>>)
  ELSE LeafChecked(value, path, FieldValidator(config.type, value),
                   FieldNormalizerOf(config.type, value))

RECURSIVE ValidateObject(_, _, _)
RECURSIVE ValidateEntries(_, _, _, _, _)
RECURSIVE ValidateField(_, _, _)
RECURSIVE ValidateItems(_, _, _, _, _)
RECURSIVE ItemValidated(_, _, _, _, _, _)

\* value.map((item, index) => ...) of _validateField, from item i on
ValidateItems(items, fields, path, i, acc) ==
  IF i > Len(items) THEN Done(JArr(acc.v), acc.errors, acc.warnings)
  ELSE ItemValidated(items, fields, path, i, acc,
                      ValidateObject(items[i], fields, ItemPath(path, i - 1)))

\* the rest of the map once item i has been validated with result r: an
\* item that throws ends the map
ItemValidated(items, fields, path, i, acc, r) ==
  IF r.threw THEN Threw(r.msg, acc.errors, acc.warnings)
  ELSE ValidateItems(items, fields, path, i + 1,
         [v |-> Append(acc.v, r.v),
          errors |-> acc.errors \o r.errors,
          warnings |-> acc.warnings \o r.warnings])

\* DataValidator._validateField(value, config, path, errors, warnings)
ValidateField(value, config, path) ==
  IF config.type = "array"
  THEN LET coerced == value.k # "arr"
           items == IF coerced THEN <<value>> ELSE value.a
           warned == IF coerced THEN <<CoerceMessage(path)>> ELSE <<>>
       IN  IF config.nested
           THEN ValidateItems(items, config.fields, path, 1,
                              [v |-> <<>>, errors |-> <<>>, warnings |-> warned])
           ELSE Done(JArr(items), <<>>, warned)
  ELSE IF config.type = "object" /\ config.nested
  THEN ValidateObject(value, config.fields, path)
  ELSE ValidateLeaf(value, config, path)

\* the try and catch around _validateField in _validateObject: the result r
\* of the call is stored, or its exception becomes an error entry
FieldValidated(acc, key, currentPath, r) ==
  [v |-> IF r.threw THEN acc.v ELSE Put(acc.v, key, r.v),
   errors |-> acc.errors \o r.errors
              \o (IF r.threw THEN <<ErrorMessage(currentPath, r.msg)>> ELSE <<>>),
   warnings |-> acc.warnings \o r.warnings]

\* the forEach of _validateObject, from entry i of the schema on
ValidateEntries(data, schema, path, i, acc) ==
  IF i > Len(schema) THEN Done(JObj(acc.v), acc.errors, acc.warnings)
  ELSE LET key == schema[i][1]
           config == schema[i][2]
           currentPath == ChildPath(path, key)
           value == Get(data, key)
       IN  IF RequiredMissing(config, value)
           THEN ValidateEntries(data, schema, path, i + 1,
                  [acc EXCEPT !.errors = Append(@, RequiredMessage(currentPath))])
           ELSE IF ~IsMissing(value)
           THEN ValidateEntries(data, schema, path, i + 1,
                  FieldValidated(acc, key, currentPath,
                                 ValidateField(value, config, currentPath)))
           ELSE IF ~config.required
           THEN ValidateEntries(data, schema, path, i + 1,
                  [acc EXCEPT !.v = Put(@, key, OptionalMissingValue)])
           ELSE ValidateEntries(data, schema, path, i + 1, acc)

\* DataValidator._validateObject(data, schema, path, result, errors, warnings):
\* reading a key of null or undefined throws before anything is pushed
ValidateObject(data, schema, path) ==
  IF data.k \in {"null", "undef"} /\ schema # <<>>
  THEN Threw(<<"Cannot read properties of null">>, <<>>, <<>>)
  ELSE ValidateEntries(data, schema, path, 1,
                       [v |-> <<>>, errors |-> <<>>, warnings |-> <<>>])

\* the return of validate(), or the return of its catch block
ValidationResult(r) ==
  IF r.threw
  THEN [isValid |-> FALSE, data |-> JObj(<<>>),
        errors |-> << <<"Validation failed: ">> \o r.msg >>,
        warnings |-> r.warnings]
  ELSE [isValid |-> r.errors = <<>>, data |-> r.v,
        errors |-> r.errors, warnings |-> r.warnings]

\* DataValidator.validate(data) for the schema of the validator
Validate(schema, data) ==
  ValidationResult(ValidateObject(data, schema, <<>>))

-----------------------------------------------------------------------------
(* The validator on its own: schemas, payloads and the one step that
   validates *)

\* the longest array of a payload
MaxItems == 2

\* "name" stands for the types FIELD_CONFIGS has no entry for
LeafTypes == {"string", "email", "phone", "url", "date", "name"}

\* values of a leaf: one in canonical form, one that passes the format check
\* without being canonical, one that fails the check
Samples(type) ==
  CASE type = "string" -> {JStr(<<"x">>), JStr(<<" ", "x">>), JNum(7)}
    [] type = "email"  -> {JStr(<<"a", "@", "b", ".", "c">>),
                           JStr(<<"A", "@", "b", ".", "c">>),
                           JStr(<<"a", "b">>)}
    [] type = "phone"  -> {JStr(<<"1", "2">>), JStr(<<"1", "-", "2">>),
                           JStr(<<"x">>)}
    [] type = "url"    -> {JStr(<<"https", ":", "/", "/", "a", ".", "c">>),
                           JStr(<<"x", ":", "a", " ">>),
                           JStr(<<"a", ".", "c">>)}
    [] type = "date"   -> {JStr(<<"2", "0", "2", "0", "-", "0", "2", "-", "0", "3">>),
                           JStr(<<"2", "0", "2", "0">>),
                           JStr(<<"x">>)}
    [] type = "name"   -> {JStr(<<"x">>), JStr(<<" ", "x">>)}

MissingKinds == {JUndef, JNull, JStr(<<>>)}

\* an object literal: the members whose value is undefined are not there
ObjectOf(members) == JObj(SelectSeq(members, LAMBDA e : e[2] # JUndef))

\* a schema entry with a value for it
Case(key, config, value) == [key |-> key, config |-> config, value |-> value]

LeafCases(key, types) ==
  UNION {{Case(key, Field(t, r), v) : r \in BOOLEAN, v \in MissingKinds \cup Samples(t)} :
           t \in types}

ObjectCases ==
  UNION {{Case(<<"o">>, FieldWith("object", r, << <<c.key, c.config>> >>), v) :
             r \in BOOLEAN,
             v \in {JUndef, JNull, ObjectOf(<< <<c.key, c.value>> >>)}} :
           c \in LeafCases(<<"g">>, LeafTypes)}

DeepCases ==
  UNION {{Case(<<"o">>,
               FieldWith("object", TRUE,
                 << <<<<"p">>, FieldWith("object", r, << <<c.key, c.config>> >>)>> >>),
               ObjectOf(<< <<<<"p">>, v>> >>)) :
             r \in BOOLEAN,
             v \in {JUndef, ObjectOf(<< <<c.key, c.value>> >>)}} :
           c \in LeafCases(<<"g">>, {"string"})}

\* the items of an array of objects: an object with or without its field,
\* or null
ItemsOf(c) ==
  {JNull} \cup {ObjectOf(<< <<c.key, v>> >>) : v \in {JUndef, JStr(<<>>)} \cup Samples(c.config.type)}

ArrayCases ==
  UNION {{Case(<<"l">>, FieldWith("array", r, << <<c.key, c.config>> >>), v) :
             r \in BOOLEAN,
             v \in {JUndef, JNull, JStr(<<"x">>)}
                   \cup {JArr(a) : a \in SeqsUpTo(ItemsOf(c), MaxItems)}} :
           c \in {Case(<<"h">>, Field(t, q), JUndef) : t \in {"string", "email"},
                                                       q \in BOOLEAN}}

\* an array without nested fields
PlainArrayCases ==
  {Case(<<"l">>, Field("array", r), v) :
     r \in BOOLEAN, v \in {JUndef, JStr(<<"x">>), JArr(<<>>), JArr(<<JStr(<<"x">>), JNull>>)}}

SiblingCases ==
  {Case(<<"z">>, Field("string", r), v) : r \in BOOLEAN, v \in {JUndef, JStr(<<"x">>)}}

FirstCases ==
  LeafCases(<<"f">>, LeafTypes) \cup ObjectCases \cup DeepCases \cup ArrayCases
  \cup PlainArrayCases

VInput(cases) ==
  [schema |-> [i \in 1..Len(cases) |-> <<cases[i].key, cases[i].config>>],
   data |-> ObjectOf([i \in 1..Len(cases) |-> <<cases[i].key, cases[i].value>>])]

ValidatorInputs ==
  {VInput(<<c>>) : c \in FirstCases}
  \cup {VInput(<<c, z>>) : c \in FirstCases, z \in SiblingCases}

ValidatorIdle == vin = None /\ vout = None

\* a caller hands a payload to DataValidator.validate
ValidatePayload ==
  /\ vin # None
  /\ vout = None
  /\ vout' = Validate(vin.schema, vin.data)
  /\ UNCHANGED <<vin, pin, pout, fb, orchVars>>

-----------------------------------------------------------------------------
(* FieldNormalizer and Helpers, as the orchestrator uses them *)

\* String.prototype.toUpperCase on the letters the inputs use
UpperAtom(c) ==
  CASE c = "a" -> "A"
    [] c = "b" -> "B"
    [] c = "x" -> "X"
    [] OTHER   -> c

\* FieldNormalizer.normalizeEmail
NormalizeEmail(email) ==
  IF ~Truthy(email) THEN JNull ELSE JStr(Trim(ToLowerCase(ToStr(email))))

\* FieldNormalizer.normalizePhone
NormalizePhone(phone) ==
  IF ~Truthy(phone) THEN JNull
  ELSE LET kept == SelectSeq(ToStr(phone), LAMBDA c : c \in Digits \cup {"+"})
       IN  IF Len(kept) > 10 /\ Head(kept) # "+" THEN JStr(<<"+">> \o kept)
           ELSE JStr(kept)

RECURSIVE NameCase(_, _)
\* split(' '), capitalise the first letter of each part and lower the rest,
\* join(' ')
NameCase(s, first) ==
  IF s = <<>> THEN <<>>
  ELSE IF Head(s) = " " THEN <<" ">> \o NameCase(Tail(s), TRUE)
  ELSE <<IF first THEN UpperAtom(Head(s)) ELSE LowerAtom(Head(s))>>
       \o NameCase(Tail(s), FALSE)

\* FieldNormalizer.normalizeName
NormalizeName(name) ==
  IF ~Truthy(name) THEN JNull ELSE JStr(NameCase(Trim(ToStr(name)), TRUE))

\* FieldNormalizer.normalizeDate, for a string
NormalizeDate(date) ==
  IF ~Truthy(date) THEN JNull
  ELSE IF DateParse(ToStr(date)).ok THEN JStr(DateParse(ToStr(date)).iso)
  ELSE JNull

\* FieldNormalizer.normalizeURL: the href of the parsed URL, which ends the
\* origin with "/" when the URL has no path
NormalizeURL(url) ==
  IF ~Truthy(url) THEN JNull
  ELSE LET t == Trim(ToStr(url))
           normalized ==
             IF OccursAt(t, <<"http", ":", "/", "/">>, 1)
                \/ OccursAt(t, <<"https", ":", "/", "/">>, 1)
             THEN t ELSE <<"https", ":", "/", "/">> \o t
           host == SubSeq(normalized, 5, Len(normalized))
       IN  IF ~UrlParses(normalized) THEN JNull
           ELSE IF \E i \in 1..Len(host) : host[i] = "/" THEN JStr(normalized)
           ELSE JStr(normalized \o <<"/">>)

\* FieldNormalizer.normalizeSkills, for an array of strings
NormalizeSkills(skills) ==
  LET trimmed == [i \in 1..Len(skills.a) |-> Trim(ToStr(skills.a[i]))]
      kept == SelectSeq(trimmed, LAMBDA t : Len(t) > 0)
  IN  JArr([i \in 1..Len(kept) |->
              JStr(<<UpperAtom(Head(kept[i]))>> \o Tail(kept[i]))])

\* FieldNormalizer.calculateDuration: null without a start date or with a
\* date that does not parse; otherwise the month count between the two dates
\* (the end date defaulting to the clock), kept as the pair it is computed
\* from
CalculateDuration(startDate, endDate) ==
  IF ~Truthy(startDate) THEN JNull
  ELSE IF ~DateParse(ToStr(startDate)).ok THEN JNull
  ELSE IF Truthy(endDate) /\ ~DateParse(ToStr(endDate)).ok THEN JNull
  ELSE JStr(<<"months from ">> \o DateParse(ToStr(startDate)).iso \o <<" to ">>
            \o (IF Truthy(endDate) THEN DateParse(ToStr(endDate)).iso
                ELSE <<"now">>))

\* the words of the extracted text, each with its length
Word(w, n) == [w |-> w, n |-> n]
StopWords == {"the", "and", "with", "for"}

RECURSIVE Distinct(_)
\* the first occurrences of a list, in order
Distinct(list) ==
  IF list = <<>> THEN <<>>
  ELSE LET rest == Distinct(SubSeq(list, 1, Len(list) - 1))
           last == list[Len(list)]
       IN  IF \E i \in 1..Len(rest) : rest[i] = last THEN rest
           ELSE Append(rest, last)

Count(list, w) == Cardinality({i \in 1..Len(list) : list[i] = w})

RECURSIVE SortByCount(_, _)
\* the stable sort by descending frequency
SortByCount(keys, list) ==
  IF keys = <<>> THEN <<>>
  ELSE LET best == CHOOSE i \in 1..Len(keys) :
                     /\ \A j \in 1..Len(keys) : Count(list, keys[j]) <= Count(list, keys[i])
                     /\ \A j \in 1..(i - 1) : Count(list, keys[j]) < Count(list, keys[i])
       IN  <<keys[best]>>
           \o SortByCount([j \in 1..(Len(keys) - 1) |->
                             IF j < best THEN keys[j] ELSE keys[j + 1]], list)

\* Helpers.extractKeywords(text) with its default minLength 3: the words of
\* the text (already lower case in the modelled documents) that are long
\* enough, are no stop word and are not a number, most frequent first
ExtractKeywords(words) ==
  LET kept == SelectSeq(words, LAMBDA x : x.n >= 3 /\ x.w \notin StopWords
                                          /\ x.w \notin Digits)
      list == [i \in 1..Len(kept) |-> kept[i].w]
      sorted == SortByCount(Distinct(list), list)
      top == SubSeq(sorted, 1, Min(Len(sorted), 50))
  IN  JArr([i \in 1..Len(top) |-> JStr(<<top[i]>>)])

-----------------------------------------------------------------------------
(* CVParser: post-processing *)

\* {...value}: the own entries of an object; a null or a number has none
Spread(v) == IF v.k = "obj" THEN v.m ELSE <<>>

\* obj.key = f(obj.key) when obj.key is truthy
NormalizeIfSet(m, key, F(_)) ==
  IF Truthy(Lookup(m, key)) THEN Put(m, key, F(Lookup(m, key))) ELSE m

\* the normalised personal section
NormalizePersonal(personal) ==
  IF personal.k # "obj" THEN personal
  ELSE JObj(NormalizeIfSet(NormalizeIfSet(NormalizeIfSet(
              NormalizeIfSet(NormalizeIfSet(NormalizeIfSet(personal.m,
                <<"email">>, NormalizeEmail),
                <<"phone">>, NormalizePhone),
                <<"fullName">>, NormalizeName),
                <<"linkedIn">>, NormalizeURL),
                <<"github">>, NormalizeURL),
                <<"website">>, NormalizeURL))

\* key: item.key ? f(item.key) : null
NormalizedOrNull(item, key, F(_)) ==
  IF Truthy(Get(item, key)) THEN F(Get(item, key)) ELSE JNull

\* the object an experience entry is mapped to
NormalizeExperience(exp) ==
  JObj(Put(Put(Put(Spread(exp),
         <<"startDate">>, NormalizedOrNull(exp, <<"startDate">>, NormalizeDate)),
         <<"endDate">>, NormalizedOrNull(exp, <<"endDate">>, NormalizeDate)),
         <<"duration">>, CalculateDuration(Get(exp, <<"startDate">>),
                                           Get(exp, <<"endDate">>))))

\* the object an education entry is mapped to
NormalizeEducation(edu) ==
  JObj(Put(Put(Spread(edu),
         <<"startDate">>, NormalizedOrNull(edu, <<"startDate">>, NormalizeDate)),
         <<"endDate">>, NormalizedOrNull(edu, <<"endDate">>, NormalizeDate)))

\* the object a certification is mapped to
NormalizeCertification(cert) ==
  JObj(Put(Put(Put(Spread(cert),
         <<"issueDate">>, NormalizedOrNull(cert, <<"issueDate">>, NormalizeDate)),
         <<"expiryDate">>, NormalizedOrNull(cert, <<"expiryDate">>, NormalizeDate)),
         <<"url">>, NormalizedOrNull(cert, <<"url">>, NormalizeURL)))

\* the normalised skills section: every array in it
NormalizeSkillLists(skills) ==
  IF skills.k # "obj" THEN skills
  ELSE JObj([i \in 1..Len(skills.m) |->
               IF skills.m[i][2].k = "arr"
               THEN <<skills.m[i][1], NormalizeSkills(skills.m[i][2])>>
               ELSE skills.m[i]])

\* list.map(F) of a section that is an array
MapSection(m, key, F(_)) ==
  IF Lookup(m, key).k = "arr"
  THEN Put(m, key, JArr([i \in 1..Len(Lookup(m, key).a) |-> F(Lookup(m, key).a[i])]))
  ELSE m

\* the inputs on which _normalizeData throws a TypeError: a null entry of a
\* mapped section (reading a property of null), a null skill (toString of
\* null)
NormalizeThrows(data) ==
  \/ \E key \in {<<"experience">>, <<"education">>, <<"certifications">>} :
       /\ Get(data, key).k = "arr"
       /\ \E i \in 1..Len(Get(data, key).a) : Get(data, key).a[i].k \in {"null", "undef"}
  \/ /\ Get(data, <<"skills">>).k = "obj"
     /\ \E i \in 1..Len(Get(data, <<"skills">>).m) :
          LET list == Get(data, <<"skills">>).m[i][2]
          IN  list.k = "arr" /\ \E j \in 1..Len(list.a) : list.a[j].k \in {"null", "undef"}

\* CVParser._normalizeData(data) where it does not throw; the entries of the
\* mapped sections are objects
NormalizeData(data) ==
  LET m1 == IF Truthy(Lookup(data.m, <<"personal">>))
            THEN Put(data.m, <<"personal">>,
                     NormalizePersonal(Lookup(data.m, <<"personal">>)))
            ELSE data.m
      m2 == MapSection(m1, <<"experience">>, NormalizeExperience)
      m3 == MapSection(m2, <<"education">>, NormalizeEducation)
      m4 == IF Truthy(Lookup(m3, <<"skills">>))
            THEN Put(m3, <<"skills">>, NormalizeSkillLists(Lookup(m3, <<"skills">>)))
            ELSE m3
  IN  JObj(MapSection(m4, <<"certifications">>, NormalizeCertification))

\* CVParser._calculateOverallConfidence(data), in hundredths.  The weights
\* are doubled so that the 7.5 of an education entry is an integer.
CalculateOverallConfidence(data) ==
  LET personal == Get(data, <<"personal">>)
      experience == Get(data, <<"experience">>)
      education == Get(data, <<"education">>)
      skills == Get(data, <<"skills">>)
      hasSkills == /\ Truthy(skills)
                   /\ \/ Truthy(Get(skills, <<"technical">>))
                      \/ Truthy(Get(skills, <<"soft">>))
      score ==
          (IF Truthy(personal) /\ Truthy(Get(personal, <<"fullName">>)) THEN 30 ELSE 0)
        + (IF Truthy(personal) /\ Truthy(Get(personal, <<"email">>)) THEN 30 ELSE 0)
        + (IF Truthy(personal) /\ Truthy(Get(personal, <<"phone">>)) THEN 20 ELSE 0)
        + (IF NonEmptyArray(experience) THEN Min(Len(experience.a) * 20, 60) ELSE 0)
        + (IF NonEmptyArray(education) THEN Min(Len(education.a) * 15, 30) ELSE 0)
        + (IF hasSkills THEN 30 ELSE 0)
      maxScore ==
          (IF Truthy(personal) THEN 80 ELSE 0)
        + (IF NonEmptyArray(experience) THEN 60 ELSE 0)
        + (IF NonEmptyArray(education) THEN 30 ELSE 0)
        + (IF hasSkills THEN 30 ELSE 0)
  IN  RoundedRatio(score, maxScore)

\* an exception: its class and its message
Err(class, message) == [class |-> class, message |-> message]

\* error instanceof CVParserError
IsCVParserError(error) ==
  error.class \in {"CVParserError", "DocumentExtractionError", "AIProcessingError",
                   "ValidationError", "SchemaError"}

\* the catch block of parse(): a typed error passes, any other is wrapped
ParseCatch(error) ==
  IF IsCVParserError(error) THEN error
  ELSE Err("CVParserError", <<"Failed to parse CV: ">> \o error.message)

\* the condition under which _postProcessResults throws after validating
StrictThrows(o, validation) == ~validation.isValid /\ o.strictValidation

\* the list a console.warn call is given, as a value
ListOf(messages) == JArr([i \in 1..Len(messages) |-> JStr(messages[i])])

RECURSIVE PutAll(_, _)
\* {...m, ...entries}
PutAll(m, entries) ==
  IF entries = <<>> THEN m
  ELSE PutAll(Put(m, Head(entries)[1], Head(entries)[2]), Tail(entries))

\* the metadata object _postProcessResults builds; the entries of a metadata
\* section the data already carries are spread last
BuildMetadata(processed, doc, instance) ==
  LET base == << <<<<"parseDate">>, JStr(<<"now">>)>>,
                 <<<<"parseConfidence">>, JNum(CalculateOverallConfidence(processed))>>,
                 <<<<"provider">>, JStr(instance.provider)>>,
                 <<<<"model">>, JStr(instance.model)>>,
                 <<<<"wordCount">>, JNum(doc.wordCount)>>,
                 <<<<"lineCount">>, JNum(doc.lineCount)>>,
                 <<<<"processingTime">>, JStr(<<"now">>)>> >>
      own == IF Truthy(Get(processed, <<"metadata">>))
             THEN Spread(Get(processed, <<"metadata">>)) ELSE <<>>
  IN  JObj(PutAll(base, own))

\* processedData.metadata?.parseConfidence || 0, for a number
ThresholdConfidence(processed) ==
  LET c == Get(Get(processed, <<"metadata">>), <<"parseConfidence">>)
  IN  IF c.k = "num" THEN c.n ELSE 0

\* the stages of _postProcessResults, each run when its option is set
StageEnabled(o, stage) ==
  CASE stage = "validate"  -> o.validateData
    [] stage = "normalize" -> o.normalizeData
    [] stage = "metadata"  -> o.includeMetadata
    [] stage = "keywords"  -> o.includeKeywords

StagesRun(o, reached) == SelectSeq(reached, LAMBDA stage : StageEnabled(o, stage))

\* the validation result of a call that does not validate: the data stays
\* as it is and nothing is reported
NotValidated(copied) ==
  [isValid |-> TRUE, data |-> copied, errors |-> <<>>, warnings |-> <<>>]

\* a post-processing that would not write the validation lists
NotWarned(validation) == <<>>

\* the two console.warn calls after a validation that is not valid
Warned(validation) ==
  IF ~validation.isValid
  THEN << [what |-> "Validation warnings:", list |-> ListOf(validation.warnings)],
          [what |-> "Validation errors:", list |-> ListOf(validation.errors)] >>
  ELSE <<>>

\* the metadata stage
WithMetadata(normalized, doc, o, instance) ==
  IF o.includeMetadata
  THEN JObj(Put(normalized.m, <<"metadata">>, BuildMetadata(normalized, doc, instance)))
  ELSE normalized

\* the keywords stage: into the metadata when there is one, else on the data
WithKeywords(described, doc, o) ==
  IF ~o.includeKeywords THEN described
  ELSE IF Truthy(Get(described, <<"metadata">>))
  THEN JObj(Put(described.m, <<"metadata">>,
                JObj(Put(Spread(Get(described, <<"metadata">>)),
                         <<"keywords">>, ExtractKeywords(doc.words)))))
  ELSE JObj(Put(described.m, <<"keywords">>, ExtractKeywords(doc.words)))

\* an order in which the keywords would come first
KeywordsFirst == <<"keywords", "validate", "normalize", "metadata">>

\* the stages of _postProcessResults in the order of its statements
PostStages == <<"validate", "normalize", "metadata", "keywords">>

\* the advisory threshold check and the return
Finished(tagged, warned, o) ==
  [threw |-> FALSE, error |-> None, data |-> tagged,
   stages |-> StagesRun(o, PostStages),
   logged |->
     warned \o (IF ThresholdConfidence(tagged) < o.confidenceThreshold
                THEN << [what |-> "Parse confidence below threshold",
                         list |-> JNum(ThresholdConfidence(tagged))] >>
                ELSE <<>>)]

\* _postProcessResults from the strictness check on
AfterValidation(validation, doc, o, instance) ==
  IF StrictThrows(o, validation)
  THEN [threw |-> TRUE,
        error |-> Err("ValidationError",
                      <<"Validation failed: ">> \o Join(validation.errors, <<", ">>)),
        data |-> None, stages |-> StagesRun(o, <<"validate">>),
        logged |-> Warned(validation)]
  ELSE IF o.normalizeData /\ NormalizeThrows(validation.data)
  THEN [threw |-> TRUE,
        error |-> Err("TypeError", <<"Cannot read properties of null">>),
        data |-> None, stages |-> StagesRun(o, <<"validate", "normalize">>),
        logged |-> Warned(validation)]
  ELSE Finished(WithKeywords(WithMetadata(IF o.normalizeData
                                          THEN NormalizeData(validation.data)
                                          ELSE validation.data,
                                          doc, o, instance), doc, o),
                Warned(validation), o)

\* CVParser._postProcessResults(data, extractedData, options): what it
\* throws or returns, the stages it ran and what it wrote with console.warn
PostProcessResults(data, doc, o, instance) ==
  AfterValidation(IF o.validateData
                  THEN Validate(instance.schema, JObj(Spread(data)))
                  ELSE NotValidated(JObj(Spread(data))),
                  doc, o, instance)

-----------------------------------------------------------------------------
(* CVParser.parse: one call, from the options to the settled promise *)

\* the largest maxRetries a call is given
MaxRetries == 2

\* the default schema, cut to the fields the payloads below carry; every
\* field left out is optional
DefaultSchema ==
  << <<<<"personal">>,
       FieldWith("object", TRUE,
         << <<<<"fullName">>, Field("name", TRUE)>>,
            <<<<"email">>, Field("email", TRUE)>>,
            <<<<"phone">>, Field("phone", FALSE)>> >>)>>,
     <<<<"experience">>,
       FieldWith("array", FALSE,
         << <<<<"jobTitle">>, Field("string", TRUE)>>,
            <<<<"company">>, Field("string", TRUE)>>,
            <<<<"startDate">>, Field("date", FALSE)>> >>)>>,
     <<<<"skills">>,
       FieldWith("object", FALSE,
         << <<<<"technical">>, Field("skill_list", FALSE)>> >>)>>,
     <<<<"summary">>, Field("string", FALSE)>> >>

\* the parser instance: provider 'gemini' with its recommended model
Instance ==
  [provider |-> <<"gemini">>, model |-> <<"gemini-1.5-flash">>,
   schema |-> DefaultSchema]

\* the preprocessed document
Document ==
  [words |-> <<Word("sql", 3), Word("and", 3), Word("python", 6), Word("js", 2),
               Word("python", 6)>>,
   wordCount |-> 5, lineCount |-> 2]

FullName == <<<<"fullName">>, JStr(<<"a", " ", "b">>)>>
Email == <<<<"email">>, JStr(<<"A", "@", "b", ".", "c">>)>>
Job(title, company) ==
  ObjectOf(<< <<<<"jobTitle">>, title>>, <<<<"company">>, company>> >>)

\* a metadata section as the LLM may write it into its payload
LLMMetadata ==
  <<<<"metadata">>,
    JObj(<< <<<<"parseConfidence">>, JNum(99)>>,
            <<<<"parseDate">>, JStr(<<"1999">>)>>,
            <<<<"provider">>, JStr(<<"llm">>)>>,
            <<<<"model">>, JStr(<<"llm", "-", "1">>)>> >>)>>

\* the payloads the provider may answer with: complete, lacking a
\* required field in each of the ways the validator distinguishes (left
\* out, null, '', inside an array item, inside an item that is null), and
\* carrying a metadata section of its own
Payloads ==
  {JObj(<< <<<<"personal">>, JObj(<<FullName, Email, <<<<"phone">>, JStr(<<"1", "-", "2">>)>> >>)>>,
           <<<<"experience">>, JArr(<<Job(JStr(<<"x">>), JStr(<<"x">>))>>)>>,
           <<<<"skills">>, JObj(<< <<<<"technical">>, JArr(<<JStr(<<" ", "x">>)>>)>> >>)>> >>),
   JObj(<< <<<<"personal">>, JObj(<<FullName, Email>>)>> >>),
   JObj(<< <<<<"personal">>, JObj(<<FullName, <<<<"email">>, JStr(<<"a", "b">>)>> >>)>> >>),
   JObj(<< <<<<"personal">>, JObj(<<FullName>>)>> >>),
   JObj(<< <<<<"personal">>, JObj(<<FullName, <<<<"email">>, JNull>> >>)>> >>),
   JObj(<< <<<<"summary">>, JStr(<<"x">>)>> >>),
   JObj(<< <<<<"personal">>, JObj(<<FullName, Email>>)>>,
           <<<<"experience">>, JArr(<<Job(JUndef, JStr(<<"x">>)),
                                      Job(JStr(<<>>), JStr(<<"x">>))>>)>> >>),
   JObj(<< <<<<"personal">>, JObj(<<FullName, Email>>)>>,
           <<<<"experience">>, JArr(<<JNull>>)>> >>),
   JObj(<< <<<<"personal">>, JObj(<<FullName, Email>>)>>, LLMMetadata >>)}

\* what the provider's envelope may carry: a payload in a fence, or prose
Replies ==
  {FenceJson \o <<"\n">> \o Stringify(P) \o <<"\n">> \o Fence : P \in Payloads}
  \cup {<<"Sorry", ",", " ", "no">>}

\* the messages of the exceptions the provider's client may throw
ProviderErrors == {<<"404", " model ", "not found">>, <<"quota exceeded">>}

-----------------------------------------------------------------------------
(* AIProcessor: the text and the prompt handed to the provider *)

\* an option the caller did not give, and one given as undefined
Absent == "absent"
Undefined == "undefined"


\* A text is a sequence of runs: n characters that are not blank ("chars"),
\* n blanks ("ws"), one "Page 1 of 2" marker ("page"), or one "References
\* available upon request" sentence ("refs").
Chars(n) == [kind |-> "chars", n |-> n]
Blanks(n) == [kind |-> "ws", n |-> n]
PageMarker == [kind |-> "page", n |-> 11]
ReferencesNote == [kind |-> "refs", n |-> 33]

RECURSIVE TextLength(_)
\* text.length
TextLength(text) ==
  IF text = <<>> THEN 0 ELSE Head(text).n + TextLength(Tail(text))

\* .replace(/Page \d+ of \d+/g, '').replace(/References available upon request/gi, '')
RemoveBoilerplate(text) == SelectSeq(text, LAMBDA r : r.kind \notin {"page", "refs"})

RECURSIVE CollapseBlanks(_)
\* .replace(/\s{2,}/g, ' '): blanks that have become neighbours form one
\* run, and a run of two or more becomes one blank
CollapseBlanks(text) ==
  IF text = <<>> THEN <<>>
  ELSE IF Head(text).kind = "ws" /\ Len(text) > 1 /\ text[2].kind = "ws"
  THEN CollapseBlanks(<<Blanks(Head(text).n + text[2].n)>> \o Tail(Tail(text)))
  ELSE IF Head(text).kind = "ws"
  THEN <<Blanks(1)>> \o CollapseBlanks(Tail(text))
  ELSE <<Head(text)>> \o CollapseBlanks(Tail(text))

\* .trim() of a text without neighbouring runs of blanks
TrimBlanks(text) ==
  LET first == IF text # <<>> /\ Head(text).kind = "ws" THEN 2 ELSE 1
      last == IF text # <<>> /\ text[Len(text)].kind = "ws" THEN Len(text) - 1
              ELSE Len(text)
  IN  SubSeq(text, first, last)

RECURSIVE Substring(_, _)
\* text.substring(0, n)
Substring(text, n) ==
  IF text = <<>> \/ n <= 0 THEN <<>>
  ELSE IF Head(text).n <= n
  THEN <<Head(text)>> \o Substring(Tail(text), n - Head(text).n)
  ELSE <<[Head(text) EXCEPT !.n = n]>>

\* the redundant content is removed before the text is cut
Cleaned(text) == TrimBlanks(CollapseBlanks(RemoveBoilerplate(text)))

\* the number of characters preprocessText keeps of a huge text
EarlyLimitLength == 50000

\* a preprocessing that would keep a text of any length
NoLimit(text) == text

\* if (text.length > 50000) text = text.substring(0, 50000)
EarlyLimit(text) ==
  IF TextLength(text) > EarlyLimitLength THEN Substring(text, EarlyLimitLength) ELSE text

RECURSIVE TrimRuns(_)
\* .trim() of a text in which runs of blanks may be neighbours
TrimRuns(text) ==
  IF text = <<>> THEN <<>>
  ELSE IF Head(text).kind = "ws" THEN TrimRuns(Tail(text))
  ELSE IF text[Len(text)].kind = "ws" THEN TrimRuns(SubSeq(text, 1, Len(text) - 1))
  ELSE text

\* DocumentExtractor.preprocessText(extractedData).text: the early cut, then
\* the blanks collapsed, the boilerplate removed and the ends trimmed
PreprocessText(text) == TrimRuns(RemoveBoilerplate(CollapseBlanks(EarlyLimit(text))))

\* a default branch that would keep everything, as 'ultra' does
KeepEverything(cleaned) == cleaned

\* default: return cleaned.substring(0, 3500)
DefaultCompression(cleaned) == Substring(cleaned, 3500)

\* AIProcessor.smartCompressText(text, level)
SmartCompressText(text, level) ==
  CASE level = "low"      -> Substring(Cleaned(text), 2000)
    [] level = "moderate" -> Substring(Cleaned(text), 3500)
    [] level = "high"     -> Substring(Cleaned(text), 5000)
    [] level = "ultra"    -> Cleaned(text)
    [] OTHER              -> DefaultCompression(Cleaned(text))

\* a line of the field list of a prompt
Line(indent, path, type, required) ==
  [indent |-> indent, path |-> path, type |-> type,
   required |-> IF required THEN "(REQUIRED)" ELSE "(OPTIONAL)"]

RECURSIVE ExtractSchemaFields(_, _)
\* AIProcessor.extractSchemaFields(schema, path): the fields keyed by their
\* dotted path
ExtractSchemaFields(schema, path) ==
  [i \in 1..Len(schema) |->
     <<ChildPath(path, schema[i][1]),
       [schema[i][2] EXCEPT
          !.fields = IF schema[i][2].nested
                     THEN ExtractSchemaFields(@, ChildPath(path, schema[i][1]))
                     ELSE <<>>]>>]

RECURSIVE FormatSchemaForPrompt(_)
\* AIProcessor.formatSchemaForPrompt(fields): one line per field, followed
\* by one indented line per field directly below it
FormatSchemaForPrompt(fields) ==
  IF fields = <<>> THEN <<>>
  ELSE LET path == Head(fields)[1]
           config == Head(fields)[2]
       IN  <<Line(0, path, config.type, config.required)>>
           \o [j \in 1..Len(config.fields) |->
                 Line(1, config.fields[j][1], config.fields[j][2].type,
                      config.fields[j][2].required)]
           \o FormatSchemaForPrompt(Tail(fields))

\* the field list getLevelPrompt writes out by hand for 'low'
BasicFields ==
  <<[indent |-> 0, path |-> <<"personal">>, type |-> "{fullName, firstName, lastName, email, phone}", required |-> ""],
    [indent |-> 0, path |-> <<"skills">>, type |-> "{technical}", required |-> ""]>>

\* the sections getLevelPrompt writes out by hand for 'moderate'
ModerateSections ==
  <<[indent |-> 0, path |-> <<"personal">>, type |-> "{fullName, firstName, lastName, email, phone, address, linkedIn}", required |-> ""],
    [indent |-> 0, path |-> <<"experience">>, type |-> "[{jobTitle, company, startDate, endDate, location, description}]", required |-> ""],
    [indent |-> 0, path |-> <<"education">>, type |-> "[{institution, degree, fieldOfStudy, startDate, endDate}]", required |-> ""],
    [indent |-> 0, path |-> <<"skills">>, type |-> "{technical: [], soft: []}", required |-> ""]>>

\* AIProcessor.getLevelPrompt(level, schemaFields), which only the
\* deprecated buildPrompt calls
GetLevelPrompt(level, schemaFields) ==
  CASE level = "low"  -> BasicFields
    [] level = "high" -> FormatSchemaForPrompt(schemaFields)
    [] OTHER          -> ModerateSections

\* REQUIRED FIELDS TO EXTRACT: ${this.formatSchemaForPrompt(schemaFields)}
RequiredFieldsToExtract(level, schemaFields) == FormatSchemaForPrompt(schemaFields)

\* !level
NoLevel(level) == level \in {Undefined, "null", ""}

\* AIProcessor.buildOriginalPrompt(text, schema)
BuildOriginalPrompt(text, schema) ==
  [fields |-> FormatSchemaForPrompt(ExtractSchemaFields(schema, <<>>)),
   instructions |-> "IMPORTANT INSTRUCTIONS 1-10",
   text |-> text]

\* the characters of the prompt template around its two insertions
TemplateLength == 1247

\* the number of characters of the keys and the type names of the schemas
Width(word) ==
  CASE word \in {"."}                                       -> 1
    [] word \in {"name", "date"}                            -> 4
    [] word \in {"email", "phone", "array"}                 -> 5
    [] word \in {"skills", "object", "string"}              -> 6
    [] word \in {"company", "summary"}                      -> 7
    [] word \in {"personal", "fullName", "jobTitle"}        -> 8
    [] word \in {"startDate", "technical"}                  -> 9
    [] word \in {"experience", "skill_list", "(REQUIRED)", "(OPTIONAL)"} -> 10
    [] OTHER                                                -> 0

RECURSIVE PathWidth(_)
PathWidth(path) == IF path = <<>> THEN 0 ELSE Width(Head(path)) + PathWidth(Tail(path))

RECURSIVE FieldListLength(_)
\* the length of the lines "- path: type (REQUIRED)\n", two blanks deeper
\* for the lines of a nested field
FieldListLength(lines) ==
  IF lines = <<>> THEN 0
  ELSE 2 * Head(lines).indent + 2 + PathWidth(Head(lines).path) + 2
       + Width(Head(lines).type) + 1 + Width(Head(lines).required) + 1
       + FieldListLength(Tail(lines))

\* prompt.length
PromptLength(prompt) ==
  TemplateLength + FieldListLength(prompt.fields) + TextLength(prompt.text)

\* a quarter of the length, rounded down
Quarter(promptLength) == promptLength \div 4

\* Math.ceil(prompt.length / 4)
EstimatedTokens(promptLength) == (promptLength + 3) \div 4

\* what buildOptimizedPrompt stores as this.lastPromptInfo for a prompt
PromptInfo(level, text, prompt) ==
  [level |-> level, textLength |-> TextLength(text),
   compressedTextLength |-> TextLength(prompt.text),
   promptLength |-> PromptLength(prompt),
   estimatedTokens |-> EstimatedTokens(PromptLength(prompt))]

\* the prompt of a call with a level
LevelPrompt(text, schema, level) ==
  [fields |-> RequiredFieldsToExtract(level, ExtractSchemaFields(schema, <<>>)),
   instructions |-> "IMPORTANT INSTRUCTIONS 1-10",
   text |-> SmartCompressText(text, level)]

\* AIProcessor.buildOptimizedPrompt(text, schema, level): the prompt, and
\* what is stored as this.lastPromptInfo
BuildOptimizedPrompt(text, schema, level) ==
  IF NoLevel(level)
  THEN [prompt |-> BuildOriginalPrompt(text, schema),
        info |-> PromptInfo("original", text, BuildOriginalPrompt(text, schema))]
  ELSE [prompt |-> LevelPrompt(text, schema, level),
        info |-> PromptInfo(level, text, LevelPrompt(text, schema, level))]

\* this.options.parsingLevel after the constructor: options.parsingLevel ||
\* 'moderate', overwritten by the spread of options when the key was given
InstanceLevel(given) == IF given = Absent THEN "moderate" ELSE given

\* mergedOptions.parsingLevel: { ...this.options, ...options }
MergedLevel(instanceLevel, given) == IF given = Absent THEN instanceLevel ELSE given

\* the parsing levels a constructor and a call may be given
ConstructorLevels == {Absent, Undefined, "low", "moderate", "high", "invalid-level"}
CallLevels == {Absent, Undefined, "low", "ultra"}

\* the provider and the model a call of parse() may name in its own options
CallProviders == {Absent, "openai"}
CallModels == {Absent, "gemini-2.0-flash"}

\* the options a call may run with (this.options merged with its own): every
\* combination of the switches without any parsing level given, and every
\* combination of parsing levels with the default switches; constructorLevel
\* and callLevel keep what the constructor and the call were given
OptionSets ==
  [retryOnFailure : BOOLEAN, maxRetries : 0..MaxRetries,
   validateData : BOOLEAN, strictValidation : BOOLEAN,
   normalizeData : BOOLEAN, includeMetadata : BOOLEAN,
   includeKeywords : BOOLEAN, confidenceThreshold : {50},
   constructorLevel : {Absent}, callLevel : {Absent},
   instanceLevel : {InstanceLevel(Absent)},
   parsingLevel : {MergedLevel(InstanceLevel(Absent), Absent)},
   callProvider : {Absent}, callModel : {Absent}]
  \cup
  {[retryOnFailure |-> TRUE, maxRetries |-> MaxRetries,
    validateData |-> TRUE, strictValidation |-> FALSE,
    normalizeData |-> TRUE, includeMetadata |-> TRUE,
    includeKeywords |-> TRUE, confidenceThreshold |-> 50,
    constructorLevel |-> c, callLevel |-> g,
    instanceLevel |-> InstanceLevel(c),
    parsingLevel |-> MergedLevel(InstanceLevel(c), g),
    callProvider |-> Absent, callModel |-> Absent] :
     c \in ConstructorLevels, g \in CallLevels}
  \cup
  {[retryOnFailure |-> TRUE, maxRetries |-> MaxRetries,
    validateData |-> TRUE, strictValidation |-> FALSE,
    normalizeData |-> TRUE, includeMetadata |-> TRUE,
    includeKeywords |-> TRUE, confidenceThreshold |-> 50,
    constructorLevel |-> Absent, callLevel |-> Absent,
    instanceLevel |-> InstanceLevel(Absent),
    parsingLevel |-> MergedLevel(InstanceLevel(Absent), Absent),
    callProvider |-> provider, callModel |-> model] :
     provider \in CallProviders, model \in CallModels}

\* options.parsingLevel || (this.options.parsingLevel !== 'moderate'
\*                            ? this.options.parsingLevel : null)
ParsingLevel(o) ==
  IF o.parsingLevel # Undefined THEN o.parsingLevel
  ELSE IF o.instanceLevel # "moderate" THEN o.instanceLevel
  ELSE "null"

\* a loop bound that would not look at retryOnFailure
ConfiguredRetries(o) == o.maxRetries

\* const maxRetries = options.retryOnFailure ? options.maxRetries : 0
EffectiveMaxRetries(o) == IF o.retryOnFailure THEN o.maxRetries ELSE 0

\* a loop that would keep the error of its first failed attempt
KeepFirstError(previous, error) == IF previous = None THEN error ELSE previous

\* what lastError holds after a failed attempt
RecordError(previous, error) == error

Rejected(error) == [status |-> "rejected", error |-> error, data |-> None]
Resolved(data) == [status |-> "resolved", error |-> None, data |-> data]

OrchIdle ==
  /\ pc = "idle" /\ opts = None /\ attempt = 0 /\ calls = <<>> /\ waits = <<>>
  /\ lastError = None /\ aiResult = None /\ stages = <<>> /\ outcome = None
  /\ logged = <<>> /\ batch = None /\ made = None /\ adapter = None /\ svc = None /\ chunks = None

OthersIdle == pin = None /\ pout = None /\ vin = None /\ vout = None /\ fb = None

\* parse(filePath, options) is called
StartParse(o) ==
  /\ pc = "idle"
  /\ pc' = "extract"
  /\ opts' = o
  /\ UNCHANGED <<attempt, calls, waits, lastError, aiResult, stages, outcome,
                 logged, pin, pout, vin, vout, fb, batch, made, adapter, svc, chunks>>

\* the document's text is extracted and preprocessed; the retry loop starts
ExtractText ==
  /\ pc = "extract"
  /\ stages' = Append(stages, "extract")
  /\ attempt' = 0
  /\ pc' = "call"
  /\ UNCHANGED <<opts, calls, waits, lastError, aiResult, outcome, logged,
                 pin, pout, vin, vout, fb, batch, made, adapter, svc, chunks>>

\* what makes extractText fail: the file cannot be read, or its extension
\* is none of pdf, docx and doc
ExtractionFailures == {<<"ENOENT">>, <<"Unsupported file format: ", "txt">>}

\* DocumentExtractor.extractText throws; parse() wraps the error
ExtractFails(cause) ==
  /\ pc = "extract"
  /\ outcome' = Rejected(ParseCatch(Err("Error", <<"Failed to extract text: ">> \o cause)))
  /\ pc' = "done"
  /\ UNCHANGED <<opts, attempt, calls, waits, lastError, aiResult, stages,
                 logged, pin, pout, vin, vout, fb, batch, made, adapter, svc, chunks>>

\* a timer that would not grow with the attempt
FixedDelay(k) == 1000

\* setTimeout(resolve, 1000 * attempt)
RetryDelay(k) == 1000 * k

\* the timer of a retry: 1000 * attempt milliseconds
WaitBeforeRetry ==
  /\ pc = "wait"
  /\ waits' = Append(waits, RetryDelay(attempt))
  /\ pc' = "call"
  /\ UNCHANGED <<opts, attempt, calls, lastError, aiResult, stages, outcome,
                 logged, pin, pout, vin, vout, fb, batch, made, adapter, svc, chunks>>

\* the end of a failed iteration: lastError is set and the loop either goes
\* round or ends, in which case lastError is thrown into the catch of parse()
FailAttempt(error) ==
  /\ lastError' = RecordError(lastError, error)
  /\ attempt' = attempt + 1
  /\ IF attempt + 1 <= EffectiveMaxRetries(opts)
     THEN pc' = "wait" /\ outcome' = outcome
     ELSE pc' = "done" /\ outcome' = Rejected(ParseCatch(lastError'))
  /\ UNCHANGED <<opts, waits, aiResult, stages, logged, pin, pout, vin, vout, fb, batch, made, adapter, svc, chunks>>

\* preprocessedData.text: a text without boilerplate or runs of blanks
DocumentText == <<Chars(4000), Blanks(1), Chars(1)>>

\* this.aiProcessor.processWithSchema(text, this.schema, level) as the loop
\* calls it at an attempt: its receiver and arguments, the attempt, the
\* number of timers that have run before it, and the lastPromptInfo that
\* building the prompt leaves behind
Call(kind, message) ==
  [kind |-> kind, message |-> message, attempt |-> attempt, timers |-> Len(waits),
   provider |-> Instance.provider, model |-> Instance.model,
   text |-> "preprocessedData.text", schema |-> "this.schema",
   level |-> ParsingLevel(opts),
   info |-> BuildOptimizedPrompt(DocumentText, Instance.schema, ParsingLevel(opts)).info]

\* processWithSchema throws: the provider's client failed, and the error is
\* wrapped by the adapter and by processWithSchema
ProviderThrows(e) ==
  /\ pc = "call"
  /\ LET error == Err("Error", <<"AI processing failed: ", "Gemini processing failed: ">> \o e)
     IN  /\ calls' = Append(calls, Call("threw", error.message))
         /\ FailAttempt(error)

\* the iteration after processWithSchema has returned result: a success is
\* returned to parse(), anything else is a failed attempt
Replied(result) ==
  IF result.success
  THEN /\ calls' = Append(calls, Call("success", <<>>))
       /\ aiResult' = result
       /\ stages' = Append(stages, "ai")
       /\ pc' = "post"
       /\ UNCHANGED <<opts, attempt, waits, lastError, outcome, logged,
                      pin, pout, vin, vout, fb, batch, made, adapter, svc, chunks>>
  ELSE /\ calls' = Append(calls, Call("failed", result.error))
       /\ FailAttempt(Err("Error", result.error))

\* processWithSchema returns what parseAIResponse made of the reply
ProviderReplies(text) ==
  /\ pc = "call"
  /\ Replied(ParseAIResponse(JStr(text)))

\* parse() returns what _postProcessResults returned, or its catch block
\* rethrows what it threw
Settle(r) ==
  /\ stages' = stages \o r.stages
  /\ logged' = logged \o r.logged
  /\ outcome' = IF r.threw THEN Rejected(ParseCatch(r.error)) ELSE Resolved(r.data)

\* _postProcessResults runs and parse() settles
PostProcess ==
  /\ pc = "post"
  /\ Settle(PostProcessResults(aiResult.data, Document, opts, Instance))
  /\ pc' = "done"
  /\ UNCHANGED <<opts, attempt, calls, waits, lastError, aiResult,
                 pin, pout, vin, vout, fb, batch, made, adapter, svc, chunks>>

Init == OrchIdle /\ OthersIdle

Next ==
  \/ \E o \in OptionSets : StartParse(o)
  \/ ExtractText
  \/ \E cause \in ExtractionFailures : ExtractFails(cause)
  \/ WaitBeforeRetry
  \/ \E e \in ProviderErrors : ProviderThrows(e)
  \/ \E text \in Replies : ProviderReplies(text)
  \/ PostProcess

Spec == Init /\ [][Next]_vars

-----------------------------------------------------------------------------
(* CVParser.parseBatch: the files of a batch, one after another *)

\* the longest batch
MaxFiles == 3

\* the items of a batch: a file path, an empty path, a named buffer with its
\* type, an object that is neither, and null
PathItem == JStr(<<"a", ".", "pdf">>)
EmptyPath == JStr(<<>>)
BufferItem ==
  JObj(<< <<<<"name">>, JStr(<<"b", ".", "pdf">>)>>,
          <<<<"buffer">>, JStr(<<"bytes">>)>>,
          <<<<"type">>, JStr(<<"pdf">>)>> >>)
EmptyObject == JObj(<<>>)
BatchItems == {PathItem, EmptyPath, BufferItem, EmptyObject, JNull}
BatchLists == SeqsUpTo(BatchItems, MaxFiles)

\* how the parse() or parseBuffer() of one item settles
ItemOutcomes ==
  {Resolved(StubPayload),
   Rejected(ParseCatch(Err("Error", <<"Failed to extract text: ", "ENOENT">>)))}

\* reading a property of null or undefined throws a TypeError
Nullish(v) == v.k \in {"null", "undef"}

\* file.name || file || "file-" + (i + 1), file neither null nor undefined
FileName(file, i) ==
  IF Truthy(Get(file, <<"name">>)) THEN Get(file, <<"name">>)
  ELSE IF Truthy(file) THEN file
  ELSE JStr(<<"file-">> \o NumStr(i + 1))

\* typeof file === 'string', else file.buffer && file.type
Parseable(file) ==
  \/ file.k = "str"
  \/ Truthy(Get(file, <<"buffer">>)) /\ Truthy(Get(file, <<"type">>))

\* the entry pushed for item i that was parsed
Succeeded(file, i, data) ==
  [success |-> TRUE, data |-> data, error |-> None, file |-> FileName(file, i),
   index |-> i]

\* the entry pushed in the catch for item i
Failed(file, i, error) ==
  [success |-> FALSE, data |-> None, error |-> error.message,
   file |-> FileName(file, i), index |-> i]

\* Math.round(successCount / files.length * 100); 0 / 0 is NaN
SuccessRate(successCount, total) ==
  IF total = 0 THEN [k |-> "nan"]
  ELSE JNum((200 * successCount + total) \div (2 * total))

\* the value parseBatch returns
BatchReturn(state) ==
  [results |-> state.results,
   summary |-> [total |-> Len(state.files),
                successful |-> state.successCount,
                failed |-> state.failureCount,
                successRate |-> SuccessRate(state.successCount, Len(state.files))]]

RECURSIVE RunLoop(_)
\* the for loop from iteration state.i up to its next await, to the return
\* or to an exception that leaves the loop
RunLoop(state) ==
  IF state.i >= Len(state.files)
  THEN [state EXCEPT !.pc = "returned", !.returned = BatchReturn(state)]
  ELSE LET file == state.files[state.i + 1]
       IN  IF Nullish(file)
           THEN [state EXCEPT !.pc = "thrown",
                              !.thrown = Err("TypeError", <<"Cannot read properties of null">>)]
           ELSE IF Parseable(file)
           THEN [state EXCEPT !.pc = "await", !.started = Append(@, state.i)]
           ELSE RunLoop([state EXCEPT
                  !.results = Append(@, Failed(file, state.i,
                                Err("CVParserError", <<"Invalid file format in batch">>))),
                  !.failureCount = @ + 1,
                  !.i = @ + 1])

\* parseBatch(files) is called
StartBatch(files) ==
  /\ batch = None
  /\ batch' = RunLoop([pc |-> "loop", files |-> files, i |-> 0, results |-> <<>>,
                       successCount |-> 0, failureCount |-> 0, started |-> <<>>,
                       settled |-> <<>>, returned |-> None, thrown |-> None])
  /\ UNCHANGED <<pc, opts, attempt, calls, waits, lastError, aiResult, stages,
                 outcome, logged, pin, pout, vin, vout, fb, made, adapter, svc, chunks>>

\* the awaited parse of item i settles; its entry is pushed and the loop
\* goes on
ItemSettles(settlement) ==
  /\ batch # None
  /\ batch.pc = "await"
  /\ LET file == batch.files[batch.i + 1]
         noted == [batch EXCEPT !.settled = Append(@, [index |-> batch.i,
                                                        as |-> settlement])]
     IN  batch' =
           IF settlement.status = "resolved"
           THEN RunLoop([noted EXCEPT
                  !.results = Append(@, Succeeded(file, batch.i, settlement.data)),
                  !.successCount = @ + 1,
                  !.i = @ + 1])
           ELSE RunLoop([noted EXCEPT
                  !.results = Append(@, Failed(file, batch.i, settlement.error)),
                  !.failureCount = @ + 1,
                  !.i = @ + 1])
  /\ UNCHANGED <<pc, opts, attempt, calls, waits, lastError, aiResult, stages,
                 outcome, logged, pin, pout, vin, vout, fb, made, adapter, svc, chunks>>

InitBatch == OrchIdle /\ OthersIdle

NextBatch ==
  \/ \E files \in BatchLists : StartBatch(files)
  \/ \E settlement \in ItemOutcomes : ItemSettles(settlement)

SpecBatch == InitBatch /\ [][NextBatch]_vars

-----------------------------------------------------------------------------
(* new CVParser(options): the construction of a parser *)

\* the client libraries that may or may not be installed, by the provider
\* whose client they are
ClientLibraries == {"groq", "openai", "claude"}

\* the options a parser is constructed with
ApiKeys == {Absent, "", "key"}
ProviderNames ==
  {Absent, "gemini", "GEMINI", "google", "openai", "claude", "anthropic", "groq",
   "invalid-provider"}
ConstructorOptions == [apiKey : ApiKeys, provider : ProviderNames]

\* String.prototype.toLowerCase on the provider names the inputs use
LowerName(name) == IF name = "GEMINI" THEN "gemini" ELSE name

\* (options.provider || 'gemini').toLowerCase()
ProviderOf(options) ==
  LowerName(IF options.provider = Absent THEN "gemini" ELSE options.provider)

\* !options.apiKey
NoApiKey(options) == options.apiKey \in {Absent, ""}

\* AIProcessor.getAvailableProviders(): gemini, and each provider whose
\* client library can be required
GetAvailableProviders(installed) ==
  <<"gemini">> \o SelectSeq(<<"groq", "openai", "claude">>,
                            LAMBDA provider : provider \in installed)

\* a check that lets every provider name through
AnyProvider(provider, installed) == TRUE

\* validateProvider(provider): availableProviders.includes(provider)
ValidateProvider(provider, installed) ==
  \E i \in 1..Len(GetAvailableProviders(installed)) :
    GetAvailableProviders(installed)[i] = provider

\* AIProcessor.getRecommendedModel(provider)
GetRecommendedModel(provider) ==
  CASE provider = "groq"   -> <<"llama3-8b-8192">>
    [] provider = "openai" -> <<"gpt-3.5-turbo">>
    [] provider = "claude" -> <<"claude-3-haiku-20240307">>
    [] OTHER               -> <<"gemini-1.5-flash">>

\* initializeProvider(): the client is made, or an Error is thrown for a
\* library that cannot be required or a name that is no case of the switch
InitializeProvider(provider, installed) ==
  CASE provider \in {"gemini", "google"} -> None
    [] provider = "openai" ->
         IF "openai" \in installed THEN None
         ELSE Err("Error", <<"OpenAI package not found. Install with: npm install openai">>)
    [] provider \in {"claude", "anthropic"} ->
         IF "claude" \in installed THEN None
         ELSE Err("Error", <<"Anthropic SDK not found. Install with: npm install @anthropic-ai/sdk">>)
    [] provider = "groq" ->
         IF "groq" \in installed THEN None
         ELSE Err("Error", <<"Groq SDK not found. Install with: npm install groq-sdk">>)
    [] OTHER -> Err("Error", <<"Unsupported AI provider: ", provider>>)

\* the constructor: what it throws, or the instance it leaves
NewCVParser(options, installed) ==
  IF NoApiKey(options)
  THEN [threw |-> TRUE, error |-> Err("CVParserError", <<"AI API key is required">>),
        instance |-> None]
  ELSE IF ~ValidateProvider(ProviderOf(options), installed)
  THEN [threw |-> TRUE,
        error |-> Err("CVParserError",
                      <<"Provider '", ProviderOf(options),
                        "' is not supported or not installed. ">>),
        instance |-> None]
  ELSE IF InitializeProvider(ProviderOf(options), installed) # None
  THEN [threw |-> TRUE, error |-> InitializeProvider(ProviderOf(options), installed),
        instance |-> None]
  ELSE [threw |-> FALSE, error |-> None,
        instance |-> [provider |-> <<ProviderOf(options)>>,
                      model |-> GetRecommendedModel(ProviderOf(options))]]

\* new CVParser(options) runs in a process where the libraries of installed
\* can be required
ConstructParser(options, installed) ==
  /\ made = None
  /\ made' = [options |-> options, installed |-> installed, providerCalls |-> 0,
              result |-> NewCVParser(options, installed)]
  /\ UNCHANGED <<pc, opts, attempt, calls, waits, lastError, aiResult, stages,
                 outcome, logged, pin, pout, vin, vout, fb, batch, adapter, svc, chunks>>

\* an attempt of the retry loop of a parse() on the instance:
\* this.aiProcessor.processWithSchema is called
CallProvider ==
  /\ made # None
  /\ ~made.result.threw
  /\ made.providerCalls <= MaxRetries
  /\ made' = [made EXCEPT !.providerCalls = @ + 1]
  /\ UNCHANGED <<pc, opts, attempt, calls, waits, lastError, aiResult, stages,
                 outcome, logged, pin, pout, vin, vout, fb, batch, adapter, svc, chunks>>

InitConstruct == OrchIdle /\ OthersIdle

NextConstruct ==
  \/ \E options \in ConstructorOptions, installed \in SUBSET ClientLibraries :
       ConstructParser(options, installed)
  \/ CallProvider

SpecConstruct == InitConstruct /\ [][NextConstruct]_vars

-----------------------------------------------------------------------------
(* AIProcessor.lastPromptInfo: the diagnostics of an adapter *)

\* the number of processWithSchema calls made on the adapter
MaxCalls == 3

\* the calls: a short text at level low, a long one at ultra, a long one
\* without a level
AdapterCalls ==
  {[text |-> <<Chars(10)>>, level |-> "low"],
   [text |-> <<Chars(4001), Blanks(3), Chars(1)>>, level |-> "ultra"],
   [text |-> <<Chars(4002)>>, level |-> Undefined]}

\* processWithSchema(text, schema, level) is called: the prompt is built
\* before the first await, which stores lastPromptInfo, and the provider
\* call is left in flight
StartCall(call) ==
  /\ adapter # None
  /\ Len(adapter.started) < MaxCalls
  /\ adapter' = [adapter EXCEPT
       !.lastPromptInfo = BuildOptimizedPrompt(call.text, Instance.schema, call.level).info,
       !.started = Append(@, call),
       !.inFlight = @ \cup {Len(adapter.started) + 1}]
  /\ UNCHANGED <<pc, opts, attempt, calls, waits, lastError, aiResult, stages,
                 outcome, logged, pin, pout, vin, vout, fb, batch, made, svc, chunks>>

\* getTokenInfo()
GetTokenInfo(state) == state.lastPromptInfo

\* the call started as number i settles and its caller reads getTokenInfo()
CompleteCall(i) ==
  /\ adapter # None
  /\ i \in adapter.inFlight
  /\ adapter' = [adapter EXCEPT
       !.inFlight = @ \ {i},
       !.reads = Append(@, [call |-> i, latest |-> Len(adapter.started),
                            info |-> GetTokenInfo(adapter)])]
  /\ UNCHANGED <<pc, opts, attempt, calls, waits, lastError, aiResult, stages,
                 outcome, logged, pin, pout, vin, vout, fb, batch, made, svc, chunks>>

InitAdapter ==
  /\ adapter = [lastPromptInfo |-> None, started |-> <<>>, inFlight |-> {},
                reads |-> <<>>]
  /\ pc = "idle" /\ opts = None /\ attempt = 0 /\ calls = <<>> /\ waits = <<>>
  /\ lastError = None /\ aiResult = None /\ stages = <<>> /\ outcome = None
  /\ logged = <<>> /\ batch = None /\ made = None /\ svc = None /\ chunks = None
  /\ OthersIdle

NextAdapter ==
  \/ \E call \in AdapterCalls : StartCall(call)
  \/ \E i \in 1..MaxCalls : CompleteCall(i)

SpecAdapter == InitAdapter /\ [][NextAdapter]_vars

-----------------------------------------------------------------------------
(* The application's CV parsing service: parseCV *)

\* getParsingLevelInfo(level).estimatedTokens; an unknown level is moderate
LevelEstimatedTokens(level) ==
  CASE level = "low"   -> 200
    [] level = "high"  -> 1000
    [] level = "ultra" -> 2000
    [] OTHER           -> 500

\* the confidence of a manual parse, in hundredths
ManualConfidence == 70

\* getEmptyParseResult()
GetEmptyParseResult ==
  JObj(<< <<<<"personal">>, JObj(<<>>)>>,
          <<<<"experience">>, JArr(<<>>)>>,
          <<<<"education">>, JArr(<<>>)>>,
          <<<<"skills">>, JObj(<<>>)>>,
          <<<<"certifications">>, JArr(<<>>)>>,
          <<<<"projects">>, JArr(<<>>)>>,
          <<<<"summary">>, JNull>>,
          <<<<"metadata">>, JObj(<< <<<<"parseConfidence">>, JNum(0)>>,
                                    <<<<"provider">>, JStr(<<"none">>)>>,
                                    <<<<"keywords">>, JArr(<<>>)>> >>)>> >>)

\* a || b
OrElse(a, b) == IF Truthy(a) THEN a ELSE b

\* (list || []).map(entry => ({... entry.field ...})) throws a TypeError when
\* the list is not an array or an entry is null or undefined
MapThrows(list) ==
  /\ Truthy(list)
  /\ \/ list.k # "arr"
     \/ \E i \in 1..Len(list.a) : Nullish(list.a[i])

\* list || [], as the entries .map goes over
ListOrEmpty(list) == IF Truthy(list) THEN list.a ELSE <<>>

\* an entry of the experience of a manual parse in the AI format
ManualExperience(exp) ==
  JObj(<< <<<<"jobTitle">>, OrElse(Get(exp, <<"position">>), Get(exp, <<"title">>))>>,
          <<<<"company">>, Get(exp, <<"company">>)>>,
          <<<<"current">>, JBool(FALSE)>> >>)

\* an entry of the education of a manual parse in the AI format
ManualEducation(edu) ==
  JObj(<< <<<<"institution">>, Get(edu, <<"institution">>)>>,
          <<<<"degree">>, Get(edu, <<"degree">>)>>,
          <<<<"endDate">>, Get(edu, <<"year">>)>> >>)

\* transformManualToAIFormat(manualData) throws a TypeError
TransformThrows(manualData) ==
  \/ Nullish(manualData)
  \/ MapThrows(Get(manualData, <<"experience">>))
  \/ MapThrows(Get(manualData, <<"education">>))

\* transformManualToAIFormat(manualData)
TransformManualToAIFormat(manualData) ==
  LET firstName == Get(manualData, <<"firstName">>)
      lastName  == Get(manualData, <<"lastName">>)
      skills    == Get(manualData, <<"skills">>)
  IN JObj(<< <<<<"personal">>,
               JObj(<< <<<<"fullName">>,
                         IF Truthy(firstName) /\ Truthy(lastName)
                         THEN JStr(firstName.s \o <<" ">> \o lastName.s)
                         ELSE JNull>>,
                       <<<<"firstName">>, firstName>>,
                       <<<<"lastName">>, lastName>>,
                       <<<<"email">>, JNull>>,
                       <<<<"phone">>, Get(manualData, <<"phone">>)>> >>)>>,
             <<<<"experience">>,
               LET experience == ListOrEmpty(Get(manualData, <<"experience">>))
               IN JArr([i \in 1..Len(experience) |-> ManualExperience(experience[i])])>>,
             <<<<"education">>,
               LET education == ListOrEmpty(Get(manualData, <<"education">>))
               IN JArr([i \in 1..Len(education) |-> ManualEducation(education[i])])>>,
             <<<<"skills">>,
               JObj(<< <<<<"technical">>,
                         IF skills.k = "arr" THEN skills ELSE JArr(<<>>)>>,
                       <<<<"soft">>, JArr(<<>>)>> >>)>>,
             <<<<"certifications">>, JArr(<<>>)>>,
             <<<<"projects">>, JArr(<<>>)>>,
             <<<<"summary">>, Get(manualData, <<"professionalSummary">>)>>,
             <<<<"objective">>, JNull>>,
             <<<<"metadata">>,
               JObj(<< <<<<"parseDate">>, JStr(<<"now">>)>>,
                       <<<<"parseConfidence">>, JNum(ManualConfidence)>>,
                       <<<<"provider">>, JStr(<<"manual">>)>>,
                       <<<<"model">>, JStr(<<"manual-parser">>)>>,
                       <<<<"keywords">>, JArr(<<>>)>> >>)>> >>)

\* the locals of parseCV when neither parser produced a result
FailedLocals ==
  [parseResult |-> GetEmptyParseResult, parseSuccess |-> FALSE,
   parsingMethod |-> "failed", actualTokensUsed |-> 0, confidence |-> 0]

\* the locals of parseCV after the AI parse resolved with data:
\* tokenInfo?.estimatedTokens || 0 and parseResult.metadata?.parseConfidence || 0
AILocals(data, tokenInfo) ==
  LET parseConfidence == Get(Get(data, <<"metadata">>), <<"parseConfidence">>)
  IN [parseResult |-> data, parseSuccess |-> TRUE, parsingMethod |-> "ai",
      actualTokensUsed |-> IF tokenInfo = None THEN 0 ELSE tokenInfo.estimatedTokens,
      confidence |-> IF parseConfidence.k = "num" THEN parseConfidence.n ELSE 0]

\* the locals of parseCV after the manual parser resolved with manualResult;
\* a throw of the transform is caught with a failure of the manual parser
ManualLocals(manualResult) ==
  IF TransformThrows(manualResult) THEN FailedLocals
  ELSE [parseResult |-> TransformManualToAIFormat(manualResult),
        parseSuccess |-> TRUE, parsingMethod |-> "manual",
        actualTokensUsed |-> LevelEstimatedTokens("moderate"),
        confidence |-> ManualConfidence]

\* parsingMethod !== 'manual', in place of the fallbackUsed of the result
NotAI(parsingMethod) == parsingMethod # "ai"

\* metadata.fallbackUsed of the result
FallbackUsed(parsingMethod) == parsingMethod = "manual"

\* building the result throws a TypeError: it is built after the try, and
\* extractExperience and extractEducation map over the parse result's lists
BuildThrows(locals) ==
  \/ MapThrows(Get(locals.parseResult, <<"experience">>))
  \/ MapThrows(Get(locals.parseResult, <<"education">>))

\* the result parseCV returns
BuildResult(locals, options) ==
  LET provider == Get(Get(locals.parseResult, <<"metadata">>), <<"provider">>)
  IN [success |-> locals.parseSuccess,
      method |-> locals.parsingMethod,
      parsingLevel |-> options.parsingLevel,
      confidence |-> locals.confidence,
      tokensUsed |-> locals.actualTokensUsed,
      data |-> locals.parseResult,
      extracted |-> [summary |-> OrElse(Get(locals.parseResult, <<"summary">>), JNull)],
      analytics |-> IF options.includeAnalytics
                    THEN [parsingMethod |-> locals.parsingMethod,
                          tokensUsed |-> locals.actualTokensUsed]
                    ELSE None,
      metadata |-> [provider |-> IF Truthy(provider) THEN provider
                                 ELSE JStr(<<locals.parsingMethod>>),
                    originalParsingLevel |-> options.parsingLevel,
                    fallbackUsed |-> FallbackUsed(locals.parsingMethod)]]

\* the options of a parseCV call, after the defaults
ServiceLevels == {"low", "moderate", "high", "ultra"}
ParseCVOptions ==
  [parsingLevel : ServiceLevels, fallbackToManual : BOOLEAN,
   includeAnalytics : BOOLEAN]

\* what createCVParser does: CV_API_KEY is set or the constructor throws
ParserCreations == {"created", "AI API key is required"}

\* what the AI parser's parse settles with, and getTokenInfo() afterwards
AIData ==
  { JObj(<< <<<<"personal">>, JObj(<<FullName, Email>>)>>,
            <<<<"experience">>, JArr(<<JObj(<< <<<<"company">>, JStr(<<"c">>)>> >>)>>)>>,
            <<<<"metadata">>, JObj(<< <<<<"parseConfidence">>, JNum(75)>>,
                                      <<<<"provider">>, JStr(<<"gemini">>)>> >>)>> >>),
    JObj(<< <<<<"personal">>, JObj(<<FullName>>)>> >>) }
TokenInfos == {None, [estimatedTokens |-> 1413]}
AISettlements ==
  [kind : {"resolved"}, data : AIData, tokenInfo : TokenInfos]
    \cup [kind : {"rejected"}, error : {"AIProcessingError", "ValidationError"}]

\* what ResumeParser.parseResume settles with
ManualData ==
  { JNull,
    JObj(<< <<<<"firstName">>, JStr(<<"a">>)>>, <<<<"lastName">>, JStr(<<"b">>)>>,
            <<<<"experience">>, JArr(<<JObj(<< <<<<"title">>, JStr(<<"t">>)>> >>)>>)>>,
            <<<<"skills">>, JArr(<<JStr(<<"js">>)>>)>> >>),
    JObj(<< <<<<"firstName">>, JStr(<<"a">>)>> >>),
    JObj(<< <<<<"experience">>, JArr(<<JNull>>)>> >>),
    JObj(<< <<<<"education">>, JStr(<<"e">>)>> >>) }
ManualSettlements ==
  [kind : {"resolved"}, data : ManualData]
    \cup [kind : {"rejected"}, error : {"ENOENT"}]

\* the end of parseCV: the result is built from the locals and returned, or
\* the throw of building it rejects
FinishParseCV(state, locals) ==
  IF BuildThrows(locals)
  THEN [state EXCEPT !.pc = "rejected", !.error = "TypeError"]
  ELSE [state EXCEPT !.pc = "resolved", !.result = BuildResult(locals, state.options)]

\* catch (aiError): the manual parser is called when fallbackToManual is set
CatchAIError(state, error) ==
  IF state.options.fallbackToManual
  THEN [state EXCEPT !.pc = "manual", !.aiError = error,
                     !.manualCalls = state.manualCalls + 1]
  ELSE FinishParseCV([state EXCEPT !.aiError = error], FailedLocals)

\* parseCV(resumePath, options) is called: the parser is created and its
\* parse is awaited, or the throw of createCVParser is caught
StartParseCV(options, creation) ==
  /\ svc = None
  /\ LET state == [pc |-> "ai", options |-> options, aiError |-> "",
                   aiData |-> None, manualCalls |-> 0, manual |-> None,
                   result |-> None, error |-> ""]
     IN svc' = IF creation = "created" THEN state ELSE CatchAIError(state, creation)
  /\ UNCHANGED <<pc, opts, attempt, calls, waits, lastError, aiResult, stages,
                 outcome, logged, pin, pout, vin, vout, fb, batch, made, adapter,
                 chunks>>

\* dynamicCVParser.parse(resumePath) settles
AIParseSettles(settlement) ==
  /\ svc # None /\ svc.pc = "ai"
  /\ svc' = IF settlement.kind = "resolved"
            THEN FinishParseCV([svc EXCEPT !.aiData = settlement.data],
                        AILocals(settlement.data, settlement.tokenInfo))
            ELSE CatchAIError(svc, settlement.error)
  /\ UNCHANGED <<pc, opts, attempt, calls, waits, lastError, aiResult, stages,
                 outcome, logged, pin, pout, vin, vout, fb, batch, made, adapter,
                 chunks>>

\* ResumeParser.parseResume(resumePath) settles
ManualParseSettles(settlement) ==
  /\ svc # None /\ svc.pc = "manual"
  /\ svc' = IF settlement.kind = "resolved"
            THEN FinishParseCV([svc EXCEPT !.manual = settlement],
                        ManualLocals(settlement.data))
            ELSE FinishParseCV([svc EXCEPT !.manual = settlement], FailedLocals)
  /\ UNCHANGED <<pc, opts, attempt, calls, waits, lastError, aiResult, stages,
                 outcome, logged, pin, pout, vin, vout, fb, batch, made, adapter,
                 chunks>>

InitService == OrchIdle /\ OthersIdle

NextService ==
  \/ \E options \in ParseCVOptions, creation \in ParserCreations :
       StartParseCV(options, creation)
  \/ \E settlement \in AISettlements : AIParseSettles(settlement)
  \/ \E settlement \in ManualSettlements : ManualParseSettles(settlement)

SpecService == InitService /\ [][NextService]_vars

-----------------------------------------------------------------------------
(* The application's CV parsing service: parseCVBatch *)

\* the largest maxConcurrent of a batch
MaxConcurrent == 3

\* the level of a batch without defaultParsingLevel
DefaultParsingLevel == "moderate"

\* the entries of cvFiles: file objects with a path and sometimes a level of
\* their own, and null
CVFile(path, parsingLevel) == [kind |-> "file", path |-> path, parsingLevel |-> parsingLevel]
NullFile == [kind |-> "null"]
CVFiles == {CVFile("a", Absent), CVFile("b", "high"), NullFile}
CVFileLists == UNION {[1..n -> CVFiles] : n \in 0..MaxFiles}

\* the options of a parseCVBatch call
CVBatchOptions == [maxConcurrent : 1..MaxConcurrent, fallbackToManual : BOOLEAN]

RECURSIVE ChunksFrom(_, _, _)
\* for (let i = 0; i < cvFiles.length; i += maxConcurrent)
\*   chunks.push(cvFiles.slice(i, i + maxConcurrent)), as lists of positions
ChunksFrom(i, length, maxConcurrent) ==
  IF i >= length THEN <<>>
  ELSE LET end == IF i + maxConcurrent < length THEN i + maxConcurrent ELSE length
       IN <<[j \in 1..(end - i) |-> i + j]>> \o ChunksFrom(i + maxConcurrent, length, maxConcurrent)

\* cvFile.parsingLevel || defaultParsingLevel
FileLevel(cvFile) ==
  IF cvFile.parsingLevel = Absent THEN DefaultParsingLevel ELSE cvFile.parsingLevel

\* how the parseCV of a file settles: with the result of an AI parse, of a
\* manual parse or of no parse, or with a rejection
OperationSettlements == {"ai", "manual", "failed", "rejected"}

\* the locals of the parseCV that settled
SettledLocals(settlement) ==
  CASE settlement = "ai" ->
         AILocals(JObj(<< <<<<"personal">>, JObj(<<FullName, Email>>)>>,
                          <<<<"metadata">>,
                            JObj(<< <<<<"parseConfidence">>, JNum(75)>> >>)>> >>),
                  [estimatedTokens |-> 1413])
    [] settlement = "manual" ->
         ManualLocals(JObj(<< <<<<"firstName">>, JStr(<<"a">>)>> >>))
    [] OTHER -> FailedLocals

\* what the callback of chunk.map returns for a file: { file, ...result }, or
\* the entry of the catch
FileEntry(cvFile, settlement, fallbackToManual) ==
  IF settlement = "rejected"
  THEN [file |-> cvFile.path, success |-> FALSE, error |-> "TypeError",
        method |-> "error", parsingLevel |-> FileLevel(cvFile), tokensUsed |-> 0]
  ELSE LET result == BuildResult(SettledLocals(settlement),
                                 [parsingLevel |-> FileLevel(cvFile),
                                  fallbackToManual |-> fallbackToManual,
                                  includeAnalytics |-> TRUE])
       IN [file |-> cvFile.path, success |-> result.success,
           method |-> result.method, parsingLevel |-> result.parsingLevel,
           confidence |-> result.confidence, tokensUsed |-> result.tokensUsed,
           fallbackUsed |-> result.metadata.fallbackUsed]

RECURSIVE TotalTokens(_)
\* results.reduce((sum, r) => sum + (r.tokensUsed || 0), 0)
TotalTokens(results) ==
  IF results = <<>> THEN 0
  ELSE Head(results).tokensUsed + TotalTokens(Tail(results))

\* Math.round(total / count) for a count above zero
RoundedAverage(total, count) == (2 * total + count) \div (2 * count)

\* batchAnalytics
BatchAnalytics(cvFiles, results) ==
  [totalFiles |-> Len(cvFiles),
   successful |-> Cardinality({i \in 1..Len(results) : results[i].success}),
   failed |-> Cardinality({i \in 1..Len(results) : ~results[i].success}),
   totalTokens |-> TotalTokens(results),
   avgTokensPerFile |-> IF Len(results) > 0
                        THEN RoundedAverage(TotalTokens(results), Len(results))
                        ELSE 0,
   parsingLevelDistribution |->
     [level \in {results[i].parsingLevel : i \in 1..Len(results)} |->
        Cardinality({i \in 1..Len(results) : results[i].parsingLevel = level})]]

\* the loop over the chunks reaches chunk k: past the last chunk the batch
\* returns; otherwise chunk.map starts a parseCV for every file object of the
\* chunk, the callback of a null entry throws at cvFile.parsingLevel, and
\* Promise.all rejects the batch when one of its promises is rejected
RunChunk(state, k) ==
  IF k > Len(state.chunkList)
  THEN [state EXCEPT !.pc = "returned", !.current = k,
                     !.analytics = BatchAnalytics(state.cvFiles, state.results)]
  ELSE LET chunk == state.chunkList[k]
           files == {chunk[j] : j \in 1..Len(chunk)}
           thrown == {i \in files : state.cvFiles[i].kind = "null"}
       IN [state EXCEPT !.current = k,
                        !.inFlight = files \ thrown,
                        !.pc = IF thrown = {} THEN "running" ELSE "rejected",
                        !.error = IF thrown = {} THEN "" ELSE "TypeError"]

\* parseCVBatch(cvFiles, options) is called
StartCVBatch(cvFiles, options) ==
  /\ chunks = None
  /\ chunks' = RunChunk([cvFiles |-> cvFiles, options |-> options,
                         chunkList |-> ChunksFrom(0, Len(cvFiles), options.maxConcurrent),
                         current |-> 0, inFlight |-> {},
                         settledWith |-> [i \in 1..Len(cvFiles) |-> ""],
                         results |-> <<>>, analytics |-> None,
                         pc |-> "running", error |-> ""], 1)
  /\ UNCHANGED <<pc, opts, attempt, calls, waits, lastError, aiResult, stages,
                 outcome, logged, pin, pout, vin, vout, fb, batch, made, adapter,
                 svc>>

\* the parseCV of file i settles; when it is the last of its chunk,
\* Promise.all resolves with the entries in the order of the chunk, they are
\* pushed, and the loop goes on
OperationSettles(i, settlement) ==
  /\ chunks # None
  /\ i \in chunks.inFlight
  /\ settlement = "manual" => chunks.options.fallbackToManual
  /\ LET settled == [chunks EXCEPT !.inFlight = chunks.inFlight \ {i},
                                   !.settledWith[i] = settlement]
         chunk == chunks.chunkList[chunks.current]
     IN chunks' =
          IF settled.pc = "running" /\ settled.inFlight = {}
          THEN RunChunk([settled EXCEPT !.results =
                           settled.results \o
                             [j \in 1..Len(chunk) |->
                                FileEntry(settled.cvFiles[chunk[j]],
                                          settled.settledWith[chunk[j]],
                                          settled.options.fallbackToManual)]],
                        settled.current + 1)
          ELSE settled
  /\ UNCHANGED <<pc, opts, attempt, calls, waits, lastError, aiResult, stages,
                 outcome, logged, pin, pout, vin, vout, fb, batch, made, adapter,
                 svc>>

InitCVBatch == OrchIdle /\ OthersIdle

NextCVBatch ==
  \/ \E cvFiles \in CVFileLists, options \in CVBatchOptions :
       StartCVBatch(cvFiles, options)
  \/ \E i \in 1..MaxFiles, settlement \in OperationSettlements :
       OperationSettles(i, settlement)

SpecCVBatch == InitCVBatch /\ [][NextCVBatch]_vars

-----------------------------------------------------------------------------
\* the response parser on its own
InitParser == pin \in ParserInputs /\ pout = None /\ vin = None /\ vout = None
              /\ fb = None /\ OrchIdle

NextParser == ParseResponse

SpecParser == InitParser /\ [][NextParser]_vars

\* the validator on its own
InitValidator == vin \in ValidatorInputs /\ vout = None /\ pin = None /\ pout = None
                 /\ fb = None /\ OrchIdle

NextValidator == ValidatePayload

SpecValidator == InitValidator /\ [][NextValidator]_vars

-----------------------------------------------------------------------------
(* The prompt builder on its own: texts, levels and schemas *)

\* pieces of a document: short and long stretches of characters, blanks,
\* and boilerplate between blanks
Fragments ==
  {<<>>, <<Chars(1)>>, <<Chars(1999)>>, <<Chars(3500)>>, <<Chars(5001)>>,
   <<Blanks(2)>>, <<ReferencesNote>>,
   <<Chars(1), Blanks(1), PageMarker, Blanks(1), Chars(1)>>}

Texts == {a \o b \o c : a \in Fragments, b \in Fragments, c \in Fragments}

\* the levels a caller may pass: the four the processor knows, one it does
\* not know, and none
Levels == {"low", "moderate", "high", "ultra", "invalid-level", Undefined, "null"}

\* a schema without nested fields
FlatSchema == << <<<<"summary">>, Field("string", FALSE)>>,
                 <<<<"fullName">>, Field("name", TRUE)>> >>

\* the definition CVSchema.getMinimalSchema() passes to the constructor
MinimalDefinition ==
  << <<<<"personal">>,
       FieldWith("object", TRUE,
         << <<<<"fullName">>, Field("name", TRUE)>>,
            <<<<"email">>, Field("email", TRUE)>>,
            <<<<"phone">>, Field("phone", FALSE)>> >>)>>,
     <<<<"experience">>,
       FieldWith("array", FALSE,
         << <<<<"jobTitle">>, Field("string", TRUE)>>,
            <<<<"company">>, Field("string", TRUE)>> >>)>> >>

\* new CVSchema(schemaDefinition): this.schema =
\* { ...this.getDefaultSchema(), ...schemaDefinition }
NewCVSchema(schemaDefinition) == PutAll(DefaultSchema, schemaDefinition)

\* CVSchema.getMinimalSchema()
GetMinimalSchema == NewCVSchema(MinimalDefinition)

\* the texts extractText may return for a document; no marker lies across
\* the early limit
Documents ==
  {<<Chars(10)>>, <<Chars(50000)>>, <<Chars(50001)>>,
   <<Chars(49999), Blanks(2), Chars(1)>>,
   <<Chars(3), Blanks(1), PageMarker, Blanks(1), Chars(6000)>>,
   <<Blanks(2), ReferencesNote, Chars(60000)>>}

PromptInputs ==
  [kind : {"compress"}, text : Texts, level : Levels, schema : {<<>>}]
  \cup [kind : {"prompt"}, text : Texts, level : Levels,
        schema : {DefaultSchema, FlatSchema}]
  \cup [kind : {"minimal"}, text : {<<Chars(1)>>, <<Chars(5001)>>}, level : Levels,
        schema : {<<>>}]
  \cup [kind : {"document"}, text : Documents, level : Levels, schema : {<<>>}]

\* smartCompressText(text, level) is called
CompressText ==
  /\ pin # None /\ pin.kind = "compress"
  /\ pout = None
  /\ pout' = [compressed |-> SmartCompressText(pin.text, pin.level)]
  /\ UNCHANGED <<pin, vin, vout, fb, orchVars>>

\* processWithSchema(text, schema, level) builds the prompt it sends
SendPrompt ==
  /\ pin # None /\ pin.kind = "prompt"
  /\ pout = None
  /\ pout' = BuildOptimizedPrompt(pin.text, pin.schema, pin.level)
  /\ UNCHANGED <<pin, vin, vout, fb, orchVars>>

\* a parser made by CVParser.minimal(options) builds the prompt it sends
SendMinimalPrompt ==
  /\ pin # None /\ pin.kind = "minimal"
  /\ pout = None
  /\ pout' = [schema |-> GetMinimalSchema,
              built |-> BuildOptimizedPrompt(pin.text, GetMinimalSchema, pin.level)]
  /\ UNCHANGED <<pin, vin, vout, fb, orchVars>>

\* parse() hands the preprocessed text of the document to the retry loop,
\* whose provider call builds the prompt
ParseDocument ==
  /\ pin # None /\ pin.kind = "document"
  /\ pout = None
  /\ pout' = [preprocessed |-> PreprocessText(pin.text),
              built |-> BuildOptimizedPrompt(PreprocessText(pin.text), DefaultSchema,
                                             pin.level)]
  /\ UNCHANGED <<pin, vin, vout, fb, orchVars>>

InitPrompt == pin \in PromptInputs /\ pout = None /\ vin = None /\ vout = None
              /\ fb = None /\ OrchIdle

NextPrompt == CompressText \/ SendPrompt \/ SendMinimalPrompt \/ ParseDocument

SpecPrompt == InitPrompt /\ [][NextPrompt]_vars

-----------------------------------------------------------------------------
(* The confidence scorer on its own: payloads, and a personal subfield to
   add to them *)

Subfields == {<<"fullName">>, <<"email">>, <<"phone">>}

\* the personal section with the named subfields, in the order of the schema
PersonalWith(names) ==
  JObj(SelectSeq(<< <<<<"fullName">>, JStr(<<"a", " ", "b">>)>>,
                    <<<<"email">>, JStr(<<"a", "@", "b", ".", "c">>)>>,
                    <<<<"phone">>, JStr(<<"1", "2">>)>> >>,
                 LAMBDA e : e[1] \in names))

\* an array of n entries
Entries(n) == JArr([i \in 1..n |-> JObj(<<>>)])

\* the payloads that are scored: each section absent or present, to each of
\* the degrees the scorer tells apart
ScoredPayloads ==
  {ObjectOf(<< <<<<"personal">>, personal>>, <<<<"experience">>, experience>>,
               <<<<"education">>, education>>, <<<<"skills">>, skills>> >>) :
     personal \in {JUndef} \cup {PersonalWith(names) : names \in SUBSET Subfields},
     experience \in {JUndef} \cup {Entries(n) : n \in {0, 1, 3, 4}},
     education \in {JUndef} \cup {Entries(n) : n \in {1, 2, 3}},
     skills \in {JUndef, JObj(<<>>),
                 JObj(<< <<<<"technical">>, JArr(<<JStr(<<"x">>)>>)>> >>)}}

\* the payload with data.personal[name] = value, the personal section made
\* for it where there was none
AddSubfield(data, name, value) ==
  LET personal == Get(data, <<"personal">>)
  IN  JObj(Put(data.m, <<"personal">>,
               JObj(Put(IF personal = JUndef THEN <<>> ELSE personal.m, name, value))))

ScorerInputs ==
  {[kind |-> "score", data |-> P, name |-> name, value |-> value] :
     P \in ScoredPayloads, name \in Subfields, value \in {JStr(<<"x">>), JStr(<<>>)}}

\* calculateConfidence scores a payload, and the payload with one more
\* personal subfield
ScorePayloads ==
  /\ pin # None /\ pin.kind = "score"
  /\ pout = None
  /\ Get(Get(pin.data, <<"personal">>), pin.name) = JUndef
  /\ pout' = [before |-> CalculateConfidence(pin.data),
              after |-> CalculateConfidence(AddSubfield(pin.data, pin.name, pin.value))]
  /\ UNCHANGED <<pin, vin, vout, fb, orchVars>>

InitScorer == pin \in ScorerInputs /\ pout = None /\ vin = None /\ vout = None
              /\ fb = None /\ OrchIdle

NextScorer == ScorePayloads

SpecScorer == InitScorer /\ [][NextScorer]_vars

-----------------------------------------------------------------------------
(* The application's parseWithFallback *)

\* the candidate model identifiers, in order of preference
GEMINI_MODELS ==
  <<"models/gemini-1.5-flash-8b", "models/gemini-1.5-flash-8b-001",
    "models/gemini-2.0-flash-lite", "models/gemini-2.0-flash-lite-001",
    "models/gemini-1.5-flash", "models/gemini-1.5-flash-002",
    "models/gemini-2.0-flash", "models/gemini-2.0-flash-001",
    "models/gemini-1.5-pro", "models/gemini-1.5-pro-002",
    "models/gemini-2.5-flash", "models/gemini-2.5-pro">>

\* process.env.CV_MODEL || "gemini-1.5-flash": the default, or a value of
\* the environment variable (here the first, a middle or the last candidate)
ModelNames ==
  {"gemini-1.5-flash", GEMINI_MODELS[1], GEMINI_MODELS[5], GEMINI_MODELS[Len(GEMINI_MODELS)]}

\* a candidate list that would keep the configured model
AllModels(models, modelName) == models

\* GEMINI_MODELS.filter((m) => m !== modelName)
RemainingModels(models, modelName) == SelectSeq(models, LAMBDA m : m # modelName)

\* [modelName, ...the remaining candidates]
ModelsToTry(modelName) == <<modelName>> \o RemainingModels(GEMINI_MODELS, modelName)

\* modelsToTry.indexOf(model)
ModelIndex(list, model) ==
  IF \E i \in 1..Len(list) : list[i] = model
  THEN (CHOOSE i \in 1..Len(list) :
          list[i] = model /\ \A j \in 1..(i - 1) : list[j] # model) - 1
  ELSE -1

\* the options of the parser createCVParser builds, after the constructor's
\* defaults
ServiceOptions ==
  [retryOnFailure |-> TRUE, maxRetries |-> 2, validateData |-> TRUE,
   strictValidation |-> FALSE, normalizeData |-> TRUE, includeMetadata |-> TRUE,
   includeKeywords |-> TRUE, confidenceThreshold |-> 60]

\* the payloads the provider answers the service with: those with work
\* experience
ServicePayloads == {P \in Payloads : Get(P, <<"experience">>) # JUndef}

\* what cvParser.parse may resolve with for a model: the post-processed
\* form of a payload
ServiceResult(P, model) ==
  PostProcessResults(P, Document, ServiceOptions,
                     [Instance EXCEPT !.model = <<model>>]).data

\* what one attempt of the parser's retry loop may fail with: the wrapped
\* error of the provider's client, or the error of an unparseable reply
AttemptFailures ==
  {Err("Error", <<"AI processing failed: ", "Gemini processing failed: ">> \o e) :
     e \in ProviderErrors}
  \cup {Err("Error", ParseFailure(<<"Unexpected token">>, JNull).error)}

\* what cvParser.parse may reject with: the wrapped error of its last attempt
ServiceFailures == {ParseCatch(e) : e \in AttemptFailures}

\* the errors after which the loop goes on without waiting
SkipsDelay(error) ==
  \/ Includes(error.message, <<"404">>)
  \/ Includes(error.message, <<"not found">>)
  \/ Includes(error.message, <<"access">>)

\* result.metadata.modelUsed = model; result.metadata.fallbackAttempt = ...
TagResult(result, model, modelsToTry) ==
  IF Truthy(Get(result, <<"metadata">>))
  THEN JObj(Put(result.m, <<"metadata">>,
                JObj(Put(Put(Spread(Get(result, <<"metadata">>)),
                         <<"modelUsed">>, JStr(<<model>>)),
                         <<"fallbackAttempt">>, JNum(ModelIndex(modelsToTry, model))))))
  ELSE result

\* the error thrown when the loop ends
AllFailed(error) ==
  Err("Error", <<"All Gemini models failed. Last error: ">> \o error.message)

\* parseWithFallback(resumePath) is called
StartFallback(modelName) ==
  /\ fb = None
  /\ fb' = [pc |-> "try", modelName |-> modelName,
            modelsToTry |-> ModelsToTry(modelName), index |-> 1,
            attempted |-> <<>>, waits |-> <<>>, lastError |-> None,
            result |-> None, thrown |-> None,
            attempt |-> 0, calls |-> <<>>, retryWaits |-> <<>>, attemptError |-> None,
            rejection |-> None]
  /\ UNCHANGED <<pin, pout, vin, vout, orchVars>>

\* the for loop moves to the next model, or ends and the function throws
NextModel(state) ==
  IF state.index + 1 <= Len(state.modelsToTry)
  THEN [state EXCEPT !.pc = "try", !.index = @ + 1,
                     !.attempt = 0, !.attemptError = None]
  ELSE [state EXCEPT !.pc = "thrown", !.index = @ + 1,
                     !.attempt = 0, !.attemptError = None,
                     !.thrown = AllFailed(state.lastError)]

\* cvParser.parse resolves for the current model
ModelSucceeds(P) ==
  /\ fb # None
  /\ fb.pc = "try"
  /\ LET model == fb.modelsToTry[fb.index]
     IN  fb' = [fb EXCEPT !.pc = "returned",
                          !.calls = Append(@, [model |-> model, attempt |-> fb.attempt]),
                          !.attempted = Append(@, [model |-> model, succeeded |-> TRUE]),
                          !.result = TagResult(ServiceResult(P, model), model,
                                               fb.modelsToTry)]
  /\ UNCHANGED <<pin, pout, vin, vout, orchVars>>

\* a loop that would keep the error of the first model that failed
FirstModelError(previous, error) == IF previous = None THEN error ELSE previous

\* lastError = error in the catch block of the loop
LastModelError(previous, error) == error

\* cvParser.parse rejects for the current model, after the provider call
\* recorded in called; rejection is what it rejected with
ModelFails(error, called) ==
  /\ LET failed == [called EXCEPT !.attempted = Append(@, [model |-> fb.modelsToTry[fb.index],
                                                           succeeded |-> FALSE]),
                                  !.rejection = error,
                                  !.lastError = LastModelError(@, error)]
     IN  fb' = IF SkipsDelay(error) THEN NextModel(failed)
               ELSE [failed EXCEPT !.pc = "wait"]
  /\ UNCHANGED <<pin, pout, vin, vout, orchVars>>

\* one attempt of the retry loop inside cvParser.parse fails for the current
\* model: the loop goes round after its timer, or ends and parse() rejects
\* with its last error
AttemptFails(error) ==
  /\ fb # None
  /\ fb.pc = "try"
  /\ LET called == [fb EXCEPT !.calls = Append(@, [model |-> fb.modelsToTry[fb.index],
                                                   attempt |-> fb.attempt])]
     IN  IF fb.attempt + 1 <= EffectiveMaxRetries(ServiceOptions)
         THEN /\ fb' = [called EXCEPT !.pc = "retry", !.attempt = @ + 1,
                                      !.attemptError = RecordError(@, error)]
              /\ UNCHANGED <<pin, pout, vin, vout, orchVars>>
         ELSE ModelFails(ParseCatch(RecordError(fb.attemptError, error)), called)

\* the timer of a retry inside cvParser.parse: 1000 * attempt milliseconds
RetryWait ==
  /\ fb # None
  /\ fb.pc = "retry"
  /\ fb' = [fb EXCEPT !.pc = "try",
                      !.retryWaits = Append(@, [model |-> fb.modelsToTry[fb.index],
                                                ms |-> 1000 * fb.attempt])]
  /\ UNCHANGED <<pin, pout, vin, vout, orchVars>>

\* the one-second timer after an error of another kind
FallbackWait ==
  /\ fb # None
  /\ fb.pc = "wait"
  /\ fb' = NextModel([fb EXCEPT !.waits = Append(@, 1000)])
  /\ UNCHANGED <<pin, pout, vin, vout, orchVars>>

InitFallback == fb = None /\ pin = None /\ pout = None /\ vin = None /\ vout = None
                /\ OrchIdle

NextFallback ==
  \/ \E modelName \in ModelNames : StartFallback(modelName)
  \/ \E P \in ServicePayloads : ModelSucceeds(P)
  \/ \E error \in AttemptFailures : AttemptFails(error)
  \/ RetryWait
  \/ FallbackWait

SpecFallback == InitFallback /\ [][NextFallback]_vars

-----------------------------------------------------------------------------
(* Properties of the response parser *)

ParserDone == pin # None /\ pout # None

\* C3: every JSON object O is recovered, with success:true, from
\* JSON.stringify(O), be it bare, inside a json fence, or between prose
\* before its first "{" and text after its last "}"
C3_RoundTrip ==
  (ParserDone /\ pin.kind = "object") => (pout.success /\ pout.data = pin.obj)

\* an object with a string of three backticks has been parsed from its bare
\* JSON text
C3_FailingInput ==
  /\ ParserDone
  /\ pin.kind = "object" /\ pin.wrap = "bare"
  /\ pin.obj = JObj(<< <<<<"a">>, JStr(Fence)>> >>)

\* C4: parseAIResponse never throws; it returns success:true with data and a
\* confidence, or success:false with an error and, as rawResponse, the
\* input exactly as it was given
C4_NeverThrowsKeepsRaw ==
  ParserDone =>
    /\ ~pout.threw
    /\ IF pout.success
       THEN pout.data # JUndef /\ pout.confidence \in 0..100
       ELSE /\ pout.error # <<>>
            /\ pout.rawResponse = pin.text

\* a reply that does not parse and that the cleaning steps have changed
C4_Witness ==
  /\ ParserDone
  /\ ~pout.success
  /\ pin.text.k = "str"
  /\ CleanResponse(pin.text.s) # pin.text.s

-----------------------------------------------------------------------------
(* Properties of the validator *)

ValidatorDone == vin # None /\ vout # None

RECURSIVE MissingRequired(_, _, _)
\* the dotted paths of the required fields of a schema that a payload lacks
\* (missing, null or ''), looking into the nested objects and the array
\* items that are there; nothing is looked for below a missing field
MissingRequired(schema, data, path) ==
  UNION {
    LET key == schema[i][1]
        config == schema[i][2]
        value == Get(data, key)
        here == ChildPath(path, key)
    IN  IF IsMissing(value)
        THEN IF config.required THEN {here} ELSE {}
        ELSE IF config.type = "object" /\ config.nested
        THEN MissingRequired(config.fields, value, here)
        ELSE IF config.type = "array" /\ config.nested
        THEN LET items == IF value.k = "arr" THEN value.a ELSE <<value>>
             IN  UNION {MissingRequired(config.fields, items[j], ItemPath(here, j - 1)) :
                          j \in 1..Len(items)}
        ELSE {} : i \in 1..Len(schema)}

\* the entries of a list of messages that name a path
Naming(messages, path) == {i \in 1..Len(messages) : Includes(messages[i], path)}

\* C5: each required field that is missing, null or '' produces exactly one
\* entry of errors, naming its dotted path (with [index] for an array item),
\* and no entry is reported below it
C5_OneErrorPerMissingField ==
  ValidatorDone =>
    \A path \in MissingRequired(vin.schema, vin.data, <<>>) :
      Cardinality(Naming(vout.errors, path)) = 1

\* a payload that lacks required fields, among them one of an array item
C5_FailingInput ==
  /\ ValidatorDone
  /\ \E path \in MissingRequired(vin.schema, vin.data, <<>>) : Includes(path, <<"[">>)

\* a present value passes the format check of its type
PassesFormat(type, value) ==
  type \in ConfiguredTypes =>
    (~FieldValidator(type, value).threw /\ FieldValidator(type, value).v)

RECURSIVE Conforms(_, _, _)
\* the payload matches the schema: no key outside the schema, every required
\* field there, every field that is there of its type's format.  An optional
\* field may be left out; when emptyAllowed it may also be null or ''.
Conforms(schema, data, emptyAllowed) ==
  /\ data.k = "obj"
  /\ \A e \in 1..Len(data.m) : \E i \in 1..Len(schema) : schema[i][1] = data.m[e][1]
  /\ \A i \in 1..Len(schema) :
       LET config == schema[i][2]
           value == Get(data, schema[i][1])
       IN  IF value = JUndef THEN ~config.required
           ELSE IF IsMissing(value) THEN emptyAllowed /\ ~config.required
           ELSE IF config.type = "object" /\ config.nested
           THEN Conforms(config.fields, value, emptyAllowed)
           ELSE IF config.type = "array" /\ config.nested
           THEN /\ value.k = "arr"
                /\ \A j \in 1..Len(value.a) : Conforms(config.fields, value.a[j], emptyAllowed)
           ELSE PassesFormat(config.type, value)

\* the normal form of a leaf of each configured type: a trimmed string, a
\* trimmed lower-case email, a phone without blanks, dashes and brackets, a
\* trimmed url, a date as YYYY-MM-DD
NormalForm(type, value) ==
  CASE type = "string" -> JStr(Trim(value.s))
    [] type = "email"  -> JStr(Trim(ToLowerCase(value.s)))
    [] type = "phone"  -> JStr(SelectSeq(value.s, LAMBDA c : c \notin {" ", "-", "(", ")"}))
    [] type = "url"    -> JStr(Trim(value.s))
    [] type = "date"   -> JStr(DateParse(value.s).iso)
    [] OTHER           -> value

RECURSIVE Completed(_, _, _)
\* the payload with the null of every optional field it leaves out (or
\* leaves empty), each leaf that is there as given or in its normal form
Completed(schema, data, normalised) ==
  JObj([i \in 1..Len(schema) |->
          LET config == schema[i][2]
              value == Get(data, schema[i][1])
          IN  <<schema[i][1],
                IF IsMissing(value) THEN JNull
                ELSE IF config.type = "object" /\ config.nested
                THEN Completed(config.fields, value, normalised)
                ELSE IF config.type = "array" /\ config.nested
                THEN JArr([j \in 1..Len(value.a) |->
                             Completed(config.fields, value.a[j], normalised)])
                ELSE IF normalised THEN NormalForm(config.type, value)
                ELSE value>>])

\* C6: for a valid payload matching the schema exactly, isValid is true and
\* the data deep-equals the payload, except that every optional field the
\* payload leaves out is there with the value null
C6_DataEqualsPayload ==
  (ValidatorDone /\ Conforms(vin.schema, vin.data, FALSE)) =>
    /\ vout.isValid
    /\ vout.data = Completed(vin.schema, vin.data, FALSE)

\* C6: for a valid payload matching the schema, isValid is true and the data
\* is the payload with every leaf in the normal form of its type and with
\* every optional field that is left out, null or '' there as null
C6_DataIsNormalisedPayload ==
  (ValidatorDone /\ Conforms(vin.schema, vin.data, TRUE)) =>
    /\ vout.isValid
    /\ vout.errors = <<>>
    /\ vout.data = Completed(vin.schema, vin.data, TRUE)

\* a valid payload with an array of two items, one of them with a leaf that
\* is not in normal form, and with an optional field left out
C6_Witness ==
  /\ ValidatorDone
  /\ Conforms(vin.schema, vin.data, TRUE)
  /\ Completed(vin.schema, vin.data, TRUE) # Completed(vin.schema, vin.data, FALSE)
  /\ \E i \in 1..Len(vin.schema) : Get(vin.data, vin.schema[i][1]) = JUndef
  /\ \E i \in 1..Len(vin.data.m) : vin.data.m[i][2].k = "arr" /\ Len(vin.data.m[i][2].a) = 2

\* the types whose format check the validator runs on a leaf
FormatTypes == {"email", "phone", "url", "date"}

\* C7: a leaf that is there and fails the format check of its type (email,
\* phone, url, date) gets a warning and never an error: errors is not
\* extended, isValid stays true, and the field is in the output data with
\* its normalised value
C7_FormatFailureOnlyWarns ==
  ValidatorDone =>
    \A i \in 1..Len(vin.schema) :
      LET key == vin.schema[i][1]
          config == vin.schema[i][2]
          value == Get(vin.data, key)
      IN  (/\ config.type \in FormatTypes
           /\ ~IsMissing(value)
           /\ value.k = "str"
           /\ ~PassesFormat(config.type, value))
          => /\ Naming(vout.warnings, key) # {}
             /\ Naming(vout.errors, key) = {}
             /\ HasKey(vout.data.m, key)
             /\ Lookup(vout.data.m, key).k = "str"
             /\ config.type # "date"
                  => Lookup(vout.data.m, key) = NormalForm(config.type, value)

\* a date that fails the format check has been validated
C7_FailingInput ==
  /\ ValidatorDone
  /\ \E i \in 1..Len(vin.schema) :
       /\ vin.schema[i][2].type = "date"
       /\ Get(vin.data, vin.schema[i][1]) = JStr(<<"x">>)

-----------------------------------------------------------------------------
(* Properties of parse() *)

\* the number of processWithSchema calls the options of the call allow
AttemptLimit == IF opts.retryOnFailure THEN opts.maxRetries + 1 ELSE 1

\* the retry loop has been entered
LoopEntered == opts # None /\ "extract" \in {stages[i] : i \in 1..Len(stages)}

\* the retry loop is over
LoopOver == LoopEntered /\ pc \in {"post", "done"}

LastCall == calls[Len(calls)]

\* C1: processWithSchema is invoked at most maxRetries+1 times with
\* retryOnFailure and exactly once without it; an attempt that throws or
\* returns success:false is followed by another attempt while attempts
\* remain; no attempt follows the first that returns success:true
C1_RetryLoop ==
  LoopEntered =>
    /\ Len(calls) <= AttemptLimit
    /\ (~opts.retryOnFailure /\ LoopOver) => Len(calls) = 1
    /\ \A i \in 1..(Len(calls) - 1) : calls[i].kind \in {"threw", "failed"}
    /\ (calls # <<>> /\ LastCall.kind \in {"threw", "failed"} /\ Len(calls) < AttemptLimit)
         => (pc \in {"wait", "call"} /\ outcome = None)
    /\ (LoopOver /\ LastCall.kind # "success") => Len(calls) = AttemptLimit

\* a call with two retries whose first attempt threw, whose second returned
\* success:false and whose third succeeded
C1_Witness ==
  /\ LoopOver
  /\ opts.retryOnFailure /\ opts.maxRetries = 2
  /\ Len(calls) = 3
  /\ calls[1].kind = "threw" /\ calls[2].kind = "failed" /\ calls[3].kind = "success"

\* every attempt of the loop has failed
Exhausted == LoopOver /\ pc = "done" /\ LastCall.kind # "success"

\* C2: when every attempt has failed, parse() rejects, without data, with a
\* CVParserError whose message contains the message of the last attempt's
\* error and not that of an earlier attempt
C2_LastErrorRejects ==
  Exhausted =>
    /\ outcome.status = "rejected"
    /\ outcome.data = None
    /\ outcome.error.class = "CVParserError"
    /\ Includes(outcome.error.message, LastCall.message)
    /\ \A i \in 1..(Len(calls) - 1) :
         calls[i].message # LastCall.message
           => ~Includes(outcome.error.message, calls[i].message)

\* three failed attempts, the last with another error than the first
C2_Witness ==
  /\ Exhausted
  /\ Len(calls) = 3
  /\ calls[1].message # calls[3].message
  /\ calls[2].kind # calls[3].kind

\* the required fields of the schema that the payload of the provider lacks
Lacking ==
  IF aiResult = None THEN {}
  ELSE MissingRequired(Instance.schema, aiResult.data, <<>>)

\* post-processing is over for a payload that lacks a required field
SettledLacking == pc = "done" /\ aiResult # None /\ opts.validateData /\ Lacking # {}

\* C8: with validateData and strictValidation, a payload that lacks a
\* required field makes parse() reject with a ValidationError whose message
\* lists the dotted path of the field; normalisation, metadata and keywords
\* do not run and no data is returned
C8_StrictRejects ==
  (SettledLacking /\ opts.strictValidation) =>
    /\ outcome.status = "rejected"
    /\ outcome.error.class = "ValidationError"
    /\ \A path \in Lacking : Includes(outcome.error.message, path)
    /\ stages = <<"extract", "ai", "validate">>
    /\ outcome.data = None

\* a strict call whose payload has a null experience entry, which lacks the
\* required jobTitle and company
C8_FailingInput ==
  /\ SettledLacking /\ opts.strictValidation
  /\ Get(aiResult.data, <<"experience">>) = JArr(<<JNull>>)
  /\ <<"experience", "[", "0", "]", ".", "jobTitle">> \in Lacking

RECURSIVE ValueAt(_, _)
\* the value a payload holds at a dotted path, undefined when it has none
ValueAt(v, path) ==
  IF path = <<>> THEN v
  ELSE IF Head(path) = "." THEN ValueAt(v, Tail(path))
  ELSE IF Head(path) = "["
  THEN LET index == CHOOSE d \in 0..9 : NumStr(d) = <<path[2]>>
       IN  ValueAt(IF v.k = "arr" /\ index < Len(v.a) THEN v.a[index + 1] ELSE JUndef,
                   SubSeq(path, 4, Len(path)))
  ELSE ValueAt(Get(v, <<Head(path)>>), Tail(path))

\* the messages of the validator's errors are handed to the caller: they
\* are an entry of the returned data or of its metadata
Surfaced(data, messages) ==
  \/ \E i \in 1..Len(data.m) : data.m[i][2] = ListOf(messages)
  \/ LET metadata == Get(data, <<"metadata">>)
     IN  metadata.k = "obj" /\ \E i \in 1..Len(metadata.m) : metadata.m[i][2] = ListOf(messages)

-----------------------------------------------------------------------------
(* Properties of parseWithFallback *)

\* the place of a candidate in GEMINI_MODELS
Preference(model) == CHOOSE q \in 1..Len(GEMINI_MODELS) : GEMINI_MODELS[q] = model

\* C10: the configured model is attempted first, then the other candidates
\* in list order, no identifier twice; the result of the first attempt that
\* succeeds is returned and no model is attempted after it; that model is
\* recorded as metadata.modelUsed, and metadata.fallbackAttempt is its
\* position in the attempt order
C10_FallbackOrder ==
  fb # None =>
    LET tried == fb.attempted
        n == Len(tried)
    IN  /\ n >= 1 => tried[1].model = fb.modelName
        /\ \A j \in 2..n :
             /\ tried[j].model # fb.modelName
             /\ \E q \in 1..Len(GEMINI_MODELS) : GEMINI_MODELS[q] = tried[j].model
             /\ {GEMINI_MODELS[q] : q \in 1..(Preference(tried[j].model) - 1)} \ {fb.modelName}
                  = {tried[k].model : k \in 2..(j - 1)}
        /\ \A j, k \in 1..n : j # k => tried[j].model # tried[k].model
        /\ \A j \in 1..(n - 1) : ~tried[j].succeeded
        /\ fb.pc = "returned" <=> (n >= 1 /\ tried[n].succeeded)
        /\ fb.pc = "thrown" =>
             {tried[j].model : j \in 1..n}
               = {fb.modelName} \cup {GEMINI_MODELS[q] : q \in 1..Len(GEMINI_MODELS)}
        /\ fb.pc = "returned" =>
             /\ Get(Get(fb.result, <<"metadata">>), <<"modelUsed">>) = JStr(<<tried[n].model>>)
             /\ Get(Get(fb.result, <<"metadata">>), <<"fallbackAttempt">>) = JNum(n - 1)
             /\ \E P \in Payloads :
                  /\ Get(fb.result, <<"personal">>)
                       = Get(ServiceResult(P, tried[n].model), <<"personal">>)
                  /\ Get(Get(fb.result, <<"metadata">>), <<"model">>) = JStr(<<tried[n].model>>)

\* the configured model is the fifth candidate; it and the six candidates
\* after it in the attempt order have been attempted, the last with success,
\* some of the earlier after a delay
C10_Witness ==
  /\ fb # None
  /\ fb.pc = "returned"
  /\ fb.modelName = GEMINI_MODELS[5]
  /\ Len(fb.attempted) = 7
  /\ fb.attempted[7].model = GEMINI_MODELS[7]
  /\ fb.waits # <<>>

\* the model attempted at position j of the fallback loop
Tried(j) == fb.attempted[j].model

\* the timers that ran while model was the current one
TimersOf(model) == {i \in 1..Len(fb.retryWaits) : fb.retryWaits[i].model = model}

NotFound == <<"not found">>

\* C11: when the first model fails with a "model not found" error and the
\* second succeeds, the result reports the second as the model used and no
\* timer has run on account of the first; the one-second delay of the loop
\* follows only errors without "404", "not found" or "access"
C11_NoDelayAfterNotFound ==
  fb # None =>
    /\ (fb.pc = "wait" => ~SkipsDelay(fb.lastError))
    /\ (/\ fb.pc = "returned" /\ Len(fb.attempted) = 2
        /\ Includes(fb.rejection.message, NotFound))
       => /\ Get(Get(fb.result, <<"metadata">>), <<"modelUsed">>) = JStr(<<Tried(2)>>)
          /\ fb.waits = <<>>
          /\ TimersOf(Tried(1)) = {}

\* the first model was answered "404 model not found" on each of its three
\* attempts, with the retry timers of 1000 and 2000 ms between them, and
\* the second model has succeeded at its first attempt
C11_FailingInput ==
  /\ fb # None
  /\ fb.pc = "returned" /\ Len(fb.attempted) = 2
  /\ Includes(fb.rejection.message, NotFound)
  /\ fb.waits = <<>>
  /\ fb.retryWaits = <<[model |-> Tried(1), ms |-> 1000], [model |-> Tried(1), ms |-> 2000]>>
  /\ Get(Get(fb.result, <<"metadata">>), <<"modelUsed">>) = JStr(<<Tried(2)>>)

\* C12: when every candidate has failed, parseWithFallback throws one error
\* whose message contains the message the last candidate's parse rejected
\* with, and it returns no result
C12_AggregateCarriesLastError ==
  (fb # None /\ \A j \in 1..Len(fb.modelsToTry) :
                  j <= Len(fb.attempted) /\ ~fb.attempted[j].succeeded)
    => /\ fb.pc \in {"wait", "thrown"}
       /\ fb.result = None
       /\ fb.pc = "thrown" =>
            /\ fb.thrown.class = "Error"
            /\ Includes(fb.thrown.message, fb.rejection.message)
            /\ Tried(Len(fb.attempted)) = fb.modelsToTry[Len(fb.modelsToTry)]

\* all thirteen models have failed, some with a delay after them, the last
\* with a "not found" error, and the aggregate error has been thrown
C12_Witness ==
  /\ fb # None
  /\ fb.pc = "thrown"
  /\ Len(fb.attempted) = 13
  /\ fb.waits # <<>>
  /\ Includes(fb.rejection.message, NotFound)

\* C13: no timer runs before attempt 0, and before retry attempt k exactly
\* one timer of k x 1000 ms runs; every attempt of a call goes to the same
\* provider and model with the same text, schema and parsing level
C13_LinearDelaySameCall ==
  /\ \A k \in 1..Len(waits) : waits[k] = k * 1000
  /\ Len(waits) <= Len(calls)
  /\ \A i \in 1..Len(calls) :
       /\ calls[i].attempt = i - 1
       /\ calls[i].timers = calls[i].attempt
       /\ calls[i].provider = calls[1].provider /\ calls[i].model = calls[1].model
       /\ calls[i].text = calls[1].text /\ calls[i].schema = calls[1].schema
       /\ calls[i].level = calls[1].level

\* a call given the level 'low' has made its third attempt, after timers of
\* 1000 and 2000 ms
C13_Witness ==
  /\ Len(calls) = 3
  /\ waits = <<1000, 2000>>
  /\ calls[3].level = "low" /\ calls[3].attempt = 2

\* the longest text smartCompressText may return for a level other than
\* 'ultra'
LevelMax(level) ==
  CASE level = "low"  -> 2000
    [] level = "high" -> 5000
    [] OTHER          -> 3500

Compressed == pin # None /\ pout # None /\ pin.kind = "compress"

\* C14: smartCompressText returns at most 2000 characters for 'low', 3500
\* for 'moderate' and 5000 for 'high', and at most moderate's 3500 for a
\* level it does not recognise
C14_CompressedWithinLevelMax ==
  (Compressed /\ pin.level # "ultra")
    => TextLength(pout.compressed) <= LevelMax(pin.level)

\* a text of more than 5000 characters after cleaning has been cut to 3500
\* for a level the processor does not know
C14_Witness ==
  /\ Compressed
  /\ pin.level = "invalid-level"
  /\ TextLength(Cleaned(pin.text)) > 5000
  /\ TextLength(pout.compressed) = 3500

Prompted == pin # None /\ pout # None /\ pin.kind = "prompt"

\* the field list names the field at path with its type, at this indent
Lists(fields, indent, path, config) ==
  \E l \in 1..Len(fields) :
    fields[l] = Line(indent, path, config.type, config.required)

\* the field list has one line for every field of the schema and one for
\* every field directly below it, and no other line
EnumeratesSchema(fields, schema) ==
  /\ \A i \in 1..Len(schema) :
       /\ Lists(fields, 0, schema[i][1], schema[i][2])
       /\ \A j \in 1..Len(schema[i][2].fields) :
            Lists(fields, 1, ChildPath(schema[i][1], schema[i][2].fields[j][1]),
                  schema[i][2].fields[j][2])
  /\ Cardinality({<<i, j>> \in (1..Len(schema)) \X (0..Len(fields)) :
                    j <= Len(schema[i][2].fields)}) = Len(fields)

C16_LevelsAreOptIn ==
  \A i \in 1..Len(calls) :
    (opts.constructorLevel = Absent /\ opts.callLevel = Absent)
      => /\ calls[i].info.level = "original"
         /\ calls[i].info.compressedTextLength = calls[i].info.textLength

\* a parser constructed and called without any parsing level has sent a
\* prompt built for 'moderate', its text of 4002 characters cut to 3500
C16_FailingInput ==
  /\ calls # <<>>
  /\ opts.constructorLevel = Absent /\ opts.callLevel = Absent
  /\ calls[1].info.level = "moderate"
  /\ calls[1].info.textLength = 4002
  /\ calls[1].info.compressedTextLength = 3500

Scored == pin # None /\ pout # None /\ pin.kind = "score"

\* C17: adding a personal subfield that was absent never lowers the score
\* of a payload, and the empty payload scores 0
C17_SubfieldNeverLowersScore ==
  Scored =>
    /\ pout.after >= pout.before
    /\ pin.data = JObj(<<>>) => pout.before = 0

\* a payload of three jobs and nothing else scores 1.00, and 0.50 once
\* personal.phone is added to it
C17_FailingInput ==
  /\ Scored
  /\ pin.data = JObj(<< <<<<"experience">>, Entries(3)>> >>)
  /\ pin.name = <<"phone">> /\ pin.value = JStr(<<"x">>)
  /\ pout.before = 100 /\ pout.after = 50

StubParsed == ParserDone /\ pin.kind = "stub"

\* C18 as stated: the stub reply is parsed, personal.email is "a@b.com",
\* and the confidence of the result is 0.40
C18_StubConfidenceForty ==
  StubParsed =>
    /\ pout.success
    /\ Get(Get(pout.data, <<"personal">>), <<"email">>) = JStr(<<"a", "@", "b", ".", "com">>)
    /\ pout.confidence = 40

\* C18: the stub reply is parsed, personal.email is "a@b.com", and the
\* confidence of the result is 0.80, the 20 + 20 points of the name and the
\* email over the 50 of the personal section
C18_StubConfidenceEighty ==
  StubParsed =>
    /\ pout.success
    /\ pout.data = StubPayload
    /\ Get(Get(pout.data, <<"personal">>), <<"email">>) = JStr(<<"a", "@", "b", ".", "com">>)
    /\ pout.confidence = 80

\* the stub reply has been parsed with success
C18_Witness == StubParsed /\ pout.success /\ pin.text = JStr(StubReply)

-----------------------------------------------------------------------------
(* C19: parseBatch *)

\* the items are parsed in the order of the list, one at a time
OneAtATime(state) ==
  /\ \A j \in 1..(Len(state.started) - 1) : state.started[j] < state.started[j + 1]
  /\ Len(state.started) - Len(state.settled) \in {0, 1}
  /\ \A j \in 1..Len(state.settled) : state.settled[j].index = state.started[j]

\* the entries pushed so far are those of the first items, in order, and an
\* item that was parsed is reported as its own parse settled
EntriesInOrder(state) ==
  /\ \A j \in 1..Len(state.results) : state.results[j].index = j - 1
  /\ \A j \in 1..Len(state.settled) :
       /\ state.settled[j].index < Len(state.results)
       /\ state.results[state.settled[j].index + 1].success
            = (state.settled[j].as.status = "resolved")

\* the returned value has one entry per item and a summary that adds up
Complete(state) ==
  LET r == state.returned
  IN  /\ r.results = state.results
      /\ Len(r.results) = Len(state.files)
      /\ r.summary.total = Len(state.files)
      /\ r.summary.total = r.summary.successful + r.summary.failed
      /\ r.summary.successful
           = Cardinality({j \in 1..Len(r.results) : r.results[j].success})

\* C19: parseBatch handles its items one after another, never leaves its loop
\* with an exception whatever the items are, and returns exactly one entry
\* per item, in order, with index i for item i and a summary whose total is
\* the number of items and the sum of successful and failed
C19_OneEntryPerItem ==
  batch # None =>
    /\ batch.pc # "thrown"
    /\ OneAtATime(batch)
    /\ EntriesInOrder(batch)
    /\ batch.pc = "returned" => Complete(batch)

\* C19: a batch of a path, null and a path: the first item was parsed and
\* reported, then parseBatch threw a TypeError and returned nothing
C19_FailingInput ==
  /\ batch # None
  /\ batch.files = <<PathItem, JNull, PathItem>>
  /\ batch.pc = "thrown"
  /\ batch.thrown.class = "TypeError"
  /\ batch.returned = None
  /\ Len(batch.results) = 1
  /\ batch.results[1].success

-----------------------------------------------------------------------------
(* C20: the class of the error parse() rejects with *)

\* the stage at which a rejected parse() stopped: nothing ran when the
\* extraction failed, only the extraction ran when the retry loop gave up,
\* and the validation ran last when the strict validation threw
FailedStage ==
  IF stages = <<>> THEN "extraction"
  ELSE IF stages = <<"extract">> THEN "ai"
  ELSE IF stages[Len(stages)] = "validate" THEN "validation"
  ELSE "later"

\* C20: the class of the error parse() rejects with names the stage that
\* failed: DocumentExtractionError for the extraction, AIProcessingError for
\* the AI stage after its retries, ValidationError for the strict validation
C20_ClassNamesFailedStage ==
  pc = "done" /\ outcome.status = "rejected" =>
    /\ FailedStage = "extraction" => outcome.error.class = "DocumentExtractionError"
    /\ FailedStage = "ai" => outcome.error.class = "AIProcessingError"
    /\ FailedStage = "validation" => outcome.error.class = "ValidationError"

\* C20: a file of an unsupported format: parse() rejects with a plain
\* CVParserError that wraps the extractor's message
C20_FailingInput ==
  /\ pc = "done"
  /\ outcome.status = "rejected"
  /\ FailedStage = "extraction"
  /\ outcome.error = Err("CVParserError",
                         <<"Failed to parse CV: ", "Failed to extract text: ",
                           "Unsupported file format: ", "txt">>)

-----------------------------------------------------------------------------
(* C21: configurations that cannot work *)

\* the names initializeProvider has a case for, and the library each needs
SupportedNames == {"gemini", "google", "openai", "claude", "anthropic", "groq"}
LibraryNeeded(provider) ==
  CASE provider = "openai"                 -> {"openai"}
    [] provider \in {"claude", "anthropic"} -> {"claude"}
    [] provider = "groq"                   -> {"groq"}
    [] OTHER                               -> {}

\* no apiKey, a provider that is not supported, or one whose client library
\* is not installed
CannotWork(options, installed) ==
  \/ options.apiKey \in {Absent, ""}
  \/ ProviderOf(options) \notin SupportedNames
  \/ ~(LibraryNeeded(ProviderOf(options)) \subseteq installed)

\* C21: a parser constructed without an apiKey, or with a provider that is
\* not supported or whose client library is not installed, throws a
\* CVParserError at construction and leaves no instance, so no provider call
\* is ever made for it
C21_FailsAtConstruction ==
  made # None /\ CannotWork(made.options, made.installed) =>
    /\ made.result.threw
    /\ made.result.error.class = "CVParserError"
    /\ made.result.instance = None
    /\ made.providerCalls = 0

\* C21: openai was asked for with an apiKey while its library is not
\* installed, and the constructor threw
C21_Witness ==
  /\ made # None
  /\ made.options = [apiKey |-> "key", provider |-> "openai"]
  /\ "openai" \notin made.installed
  /\ made.result.threw
  /\ made.providerCalls = 0

-----------------------------------------------------------------------------
(* C22: the options of a call *)

\* the value of a key for a call: what the call named, else the instance's
CallValue(given, ofInstance) == IF given = Absent THEN ofInstance ELSE <<given>>

\* C22: what a call of parse() names in its own options decides that call in
\* place of the instance's value: every provider call of the parse is made
\* with the provider, the model and the parsing level the call named
C22_CallOptionsDecide ==
  opts # None =>
    \A i \in 1..Len(calls) :
      /\ calls[i].provider = CallValue(opts.callProvider, Instance.provider)
      /\ calls[i].model = CallValue(opts.callModel, Instance.model)
      /\ opts.callLevel \notin {Absent, Undefined} => calls[i].level = opts.callLevel

\* C22: parse(file, {model: 'gemini-2.0-flash'}) on a parser constructed for
\* gemini-1.5-flash: the provider was called with the instance's model
C22_FailingInput ==
  /\ opts # None
  /\ opts.callModel = "gemini-2.0-flash"
  /\ opts.callProvider = Absent
  /\ Len(calls) > 0
  /\ calls[1].model = <<"gemini-1.5-flash">>

-----------------------------------------------------------------------------
(* C23: the diagnostics describe the call started last *)

\* what the diagnostics of a call say: its level ('original' without one),
\* the lengths of its text and of the text in its prompt, the length of its
\* prompt, and a token estimate of a quarter of that length, rounded up
Describes(info, call) ==
  /\ info.level = (IF call.level = Undefined THEN "original" ELSE call.level)
  /\ info.textLength = TextLength(call.text)
  /\ info.compressedTextLength
       = TextLength(BuildOptimizedPrompt(call.text, Instance.schema, call.level).prompt.text)
  /\ info.promptLength
       = PromptLength(BuildOptimizedPrompt(call.text, Instance.schema, call.level).prompt)
  /\ 4 * info.estimatedTokens >= info.promptLength
  /\ 4 * (info.estimatedTokens - 1) < info.promptLength

-----------------------------------------------------------------------------
(* C24: the confidence threshold *)

\* the LLM stage of the call succeeded
LLMSucceeded == \E i \in 1..Len(stages) : stages[i] = "ai"

\* the strict validation raised
ValidationRaised ==
  outcome.status = "rejected" /\ outcome.error.class = "ValidationError"

\* the call wrote the warning of the threshold check
BelowThresholdLogged ==
  \E i \in 1..Len(logged) : logged[i].what = "Parse confidence below threshold"

\* C24: a parse() whose LLM stage succeeded and whose validation did not
\* raise returns its result, whatever the confidence is
C24_ThresholdNeverBlocks ==
  pc = "done" /\ LLMSucceeded /\ ~ValidationRaised => outcome.status = "resolved"

\* C24: the LLM stage succeeded and nothing was validated, and parse()
\* rejected with the TypeError of the normalisation wrapped in a CVParserError
C24_FailingInput ==
  /\ pc = "done"
  /\ LLMSucceeded
  /\ ~opts.validateData
  /\ opts.normalizeData
  /\ outcome.status = "rejected"
  /\ outcome.error.class = "CVParserError"
  /\ NormalizeThrows(JObj(Spread(aiResult.data)))

-----------------------------------------------------------------------------
(* C25: the minimal preset *)

\* the keys of a schema, in order
KeysOf(schema) == [i \in 1..Len(schema) |-> schema[i][1]]

\* the prompt of a minimal parser has been built
MinimalBuilt == pin # None /\ pin.kind = "minimal" /\ pout # None

\* C25: the schema of the minimal preset has the top-level fields personal
\* (fullName, email, phone) and experience (jobTitle, company) and no other,
\* and the field list of a prompt built from it names no other section
C25_MinimalIsBasicInfoOnly ==
  MinimalBuilt =>
    /\ KeysOf(pout.schema) = << <<"personal">>, <<"experience">> >>
    /\ KeysOf(pout.schema[1][2].fields) = << <<"fullName">>, <<"email">>, <<"phone">> >>
    /\ KeysOf(pout.schema[2][2].fields) = << <<"jobTitle">>, <<"company">> >>
    /\ \A i \in 1..Len(pout.built.prompt.fields) :
         Head(pout.built.prompt.fields[i].path) \in {"personal", "experience"}

\* C25: the minimal schema carries the skills and summary sections of the
\* default schema, and the prompt built from it asks for them
C25_FailingInput ==
  /\ MinimalBuilt
  /\ KeysOf(pout.schema)
       = << <<"personal">>, <<"experience">>, <<"skills">>, <<"summary">> >>
  /\ \E i \in 1..Len(pout.built.prompt.fields) :
       pout.built.prompt.fields[i].path = <<"skills">>

-----------------------------------------------------------------------------
(* C26: the order of the stages of a call *)

\* the place of a stage in the order of a call
Rank(stage) ==
  CASE stage = "extract"   -> 1
    [] stage = "ai"        -> 2
    [] stage = "validate"  -> 3
    [] stage = "normalize" -> 4
    [] stage = "metadata"  -> 5
    [] stage = "keywords"  -> 6

\* C26: the stages of a call run in the order extract, LLM stage, validate,
\* normalise, metadata, keywords, each at most once; every provider call
\* and retry comes after the one extraction; no post-processing stage runs
\* without a successful LLM stage before it; and the threshold warning is
\* the last thing written before the result is returned
C26_StagesInOrder ==
  /\ \A i \in 1..(Len(stages) - 1) : Rank(stages[i]) < Rank(stages[i + 1])
  /\ calls # <<>> => stages # <<>> /\ stages[1] = "extract"
  /\ \A i \in 1..Len(stages) :
       Rank(stages[i]) > 2 => Len(stages) >= 2 /\ stages[2] = "ai"
  /\ Len(stages) >= 2 /\ stages[2] = "ai" => calls[Len(calls)].kind = "success"
  /\ BelowThresholdLogged =>
       /\ pc = "done" /\ outcome.status = "resolved"
       /\ logged[Len(logged)].what = "Parse confidence below threshold"

\* C26: a call that needed two retries and then ran every stage
C26_Witness ==
  /\ pc = "done"
  /\ Len(calls) = 3
  /\ stages = <<"extract", "ai", "validate", "normalize", "metadata", "keywords">>
  /\ outcome.status = "resolved"

-----------------------------------------------------------------------------
(* C27: the metadata of a result *)

\* the metadata of the result parse() resolved with
ResultMetadata == Get(outcome.data, <<"metadata">>)

\* parse() resolved with metadata enabled
Described == pc = "done" /\ outcome.status = "resolved" /\ opts.includeMetadata

\* C27: with includeMetadata enabled, metadata.parseConfidence of the result
\* is the orchestrator's overall confidence of the data, and parseDate,
\* provider and model are the orchestrator's own values, whatever metadata
\* the payload of the LLM carried
C27_MetadataIsTheOrchestrators ==
  Described =>
    /\ Get(ResultMetadata, <<"parseConfidence">>)
         = JNum(CalculateOverallConfidence(outcome.data))
    /\ Get(ResultMetadata, <<"parseDate">>) = JStr(<<"now">>)
    /\ Get(ResultMetadata, <<"provider">>) = JStr(Instance.provider)
    /\ Get(ResultMetadata, <<"model">>) = JStr(Instance.model)

\* C27: the payload carried a metadata section, nothing was validated, and
\* the result reports the confidence, the date, the provider and the model
\* the LLM wrote
C27_FailingInput ==
  /\ Described
  /\ ~opts.validateData
  /\ CalculateOverallConfidence(outcome.data) = 75
  /\ Get(ResultMetadata, <<"parseConfidence">>) = JNum(99)
  /\ Get(ResultMetadata, <<"parseDate">>) = JStr(<<"1999">>)
  /\ Get(ResultMetadata, <<"provider">>) = JStr(<<"llm">>)
  /\ Get(ResultMetadata, <<"model">>) = JStr(<<"llm", "-", "1">>)

-----------------------------------------------------------------------------
(* C28: the text of an ultra prompt *)

RECURSIVE Letters(_)
\* the number of characters of a text that are neither blank nor part of the
\* page-number and references boilerplate
Letters(text) ==
  IF text = <<>> THEN 0
  ELSE (IF Head(text).kind = "chars" THEN Head(text).n ELSE 0) + Letters(Tail(text))

RECURSIVE Prefix(_, _)
\* the first n characters of a text
Prefix(text, n) ==
  IF text = <<>> \/ n <= 0 THEN <<>>
  ELSE IF Head(text).n <= n THEN <<Head(text)>> \o Prefix(Tail(text), n - Head(text).n)
  ELSE <<[Head(text) EXCEPT !.n = n]>>

\* a document has been parsed at level ultra
UltraParsed == pin # None /\ pin.kind = "document" /\ pin.level = "ultra" /\ pout # None

\* C28 as stated: at level ultra every character of the document that is
\* neither blank nor boilerplate is in the text of the prompt, whatever the
\* length of the document
C28_UltraKeepsEveryCharacter ==
  UltraParsed => Letters(pout.built.prompt.text) = Letters(pin.text)

\* C28: at level ultra the text of the prompt holds every character that is
\* neither blank nor boilerplate of the first 50000 characters of the
\* document, and nothing of what follows them; a document of at most 50000
\* characters is kept whole
C28_UltraKeepsFirstFiftyThousand ==
  UltraParsed =>
    /\ Letters(pout.built.prompt.text) = Letters(Prefix(pin.text, 50000))
    /\ TextLength(pin.text) <= 50000 =>
         Letters(pout.built.prompt.text) = Letters(pin.text)

\* C28: a document of 60035 characters parsed at level ultra, of which the
\* prompt holds 49965
C28_Witness ==
  /\ UltraParsed
  /\ pin.text = <<Blanks(2), ReferencesNote, Chars(60000)>>
  /\ Letters(pout.built.prompt.text) = 49965

-----------------------------------------------------------------------------
(* C29: the contract of parseCV *)

\* parseCV has returned
ParseCVReturned == svc # None /\ svc.pc = "resolved"

\* the AI parse has failed: createCVParser threw or parse rejected
AIFailed == svc # None /\ svc.aiError # ""

\* C29: parseCV never rejects after a failure of the AI parser or of the
\* manual parser; the manual parser is called at most once, only after the AI
\* parse failed and only with fallbackToManual; and the result has method ai,
\* manual or failed, success exactly for ai and manual, no tokens, no
\* confidence and the empty parse result for failed, and fallbackUsed exactly
\* for manual
C29_ParseCVContract ==
  svc # None =>
    /\ (AIFailed \/ svc.manual # None) => svc.pc # "rejected"
    /\ svc.manualCalls <= 1
    /\ svc.manualCalls = 1 => AIFailed /\ svc.options.fallbackToManual
    /\ ParseCVReturned =>
         /\ svc.result.method \in {"ai", "manual", "failed"}
         /\ svc.result.success <=> svc.result.method \in {"ai", "manual"}
         /\ svc.result.method = "failed" =>
              /\ svc.result.tokensUsed = 0
              /\ svc.result.confidence = 0
              /\ svc.result.data = GetEmptyParseResult
         /\ svc.result.metadata.fallbackUsed <=> svc.result.method = "manual"

\* C29: the AI parse failed, the manual parser was called and threw on its
\* own result, and parseCV returned the failed result
C29_Witness ==
  /\ ParseCVReturned
  /\ AIFailed
  /\ svc.manualCalls = 1
  /\ svc.manual.kind = "resolved" /\ svc.manual.data = JNull
  /\ svc.result.method = "failed"
  /\ ~svc.result.success
  /\ ~svc.result.metadata.fallbackUsed

-----------------------------------------------------------------------------
(* C30: the chunks of parseCVBatch *)

\* the chunk of file i
ChunkOf(i) ==
  CHOOSE k \in 1..Len(chunks.chunkList) :
    \E j \in 1..Len(chunks.chunkList[k]) : chunks.chunkList[k][j] = i

\* at most maxConcurrent operations run, and an operation runs only when
\* every operation of the chunks before its own has settled
ChunkAfterChunk ==
  /\ Cardinality(chunks.inFlight) <= chunks.options.maxConcurrent
  /\ \A i \in chunks.inFlight : \A j \in 1..Len(chunks.cvFiles) :
       ChunkOf(j) < ChunkOf(i) => j \notin chunks.inFlight /\ chunks.settledWith[j] # ""

\* the batch returned one entry per file, in the order of the files, each
\* the entry of its own file and of how its own operation settled, and the
\* analytics count every file once
OneEntryPerFile ==
  /\ Len(chunks.results) = Len(chunks.cvFiles)
  /\ \A i \in 1..Len(chunks.cvFiles) :
       /\ chunks.cvFiles[i].kind = "file"
       /\ chunks.results[i] = FileEntry(chunks.cvFiles[i], chunks.settledWith[i],
                                        chunks.options.fallbackToManual)
  /\ chunks.analytics.totalFiles = Len(chunks.cvFiles)
  /\ chunks.analytics.successful + chunks.analytics.failed = chunks.analytics.totalFiles

\* C30: for every maxConcurrent >= 1 parseCVBatch runs at most maxConcurrent
\* operations at a time, chunk after chunk, never ends without returning, and
\* returns one entry per file in input order with successful + failed =
\* totalFiles, the entry of a file depending on that file alone
C30_ChunkedBatchReturns ==
  chunks # None =>
    /\ ChunkAfterChunk
    /\ chunks.pc # "rejected"
    /\ chunks.pc = "returned" => OneEntryPerFile

\* C30: a batch of a file and a null entry, one at a time: the file was
\* parsed and its entry pushed, then the batch rejected with a TypeError
C30_FailingInput ==
  /\ chunks # None
  /\ chunks.cvFiles = <<CVFile("a", Absent), NullFile>>
  /\ chunks.options.maxConcurrent = 1
  /\ chunks.settledWith[1] = "ai"
  /\ Len(chunks.results) = 1
  /\ chunks.pc = "rejected"
  /\ chunks.error = "TypeError"
  /\ chunks.analytics = None

=============================================================================
